---------------------------- MODULE Spec2Model ----------------------------
(***************************************************************************)
(* Request/response bridge of the Puter AI extension.                      *)
(*                                                                         *)
(* The extension host (PuterAIService) posts 'apiRequest' descriptors to   *)
(* the webview, whose script performs the SDK call and posts back an       *)
(* 'apiResponse'.  PuterAIService.callPuterAPI correlates the reply by     *)
(* requestId, races it against a 60 second timer and retries.              *)
(*                                                                         *)
(* Text is modelled as a sequence of words, so that String.includes is the *)
(* search for a contiguous run of words.  Time is the host clock in        *)
(* milliseconds; it advances to the next due time of an armed timer and   *)
(* does not pass a timer that is due, so a callback runs at its due time.  *)
(***************************************************************************)
EXTENDS Integers, Sequences, FiniteSets, TLC

(* ------------------------------ bounds -------------------------------- *)

\* Number of callPuterAPI invocations that may be in flight together.
NumCalls == 2

\* Number of distinct values Math.random() can contribute to a requestId.
RandRange == 2

\* Number of calls that may go beyond their first attempt.
MaxRetrying == 1

\* Number of chatWithStreaming invocations.
NumStreams == 2

(* ------------------------- program constants --------------------------- *)

\* callPuterAPI(method, params, retries = 3)
Retries == 3

\* setTimeout(..., 60000)
TimeoutMs == 60000

\* Math.pow(2, attempt) * 1000
BackoffBaseMs == 1000

Calls == 1..NumCalls

Streams == 1..NumStreams

RandomValues == 1..RandRange

(* -------------------------------- text --------------------------------- *)

\* String.prototype.includes on word sequences.
Includes(msg, sub) ==
    \E i \in 1..(Len(msg) - Len(sub) + 1) : SubSeq(msg, i, i + Len(sub) - 1) = sub

\* An absent or empty string (both are falsy in `x || y`).
NoText == << >>

\* Another wording of the guard's error.
NotInitializedMsgReworded == <<"Webview", "provider", "unavailable">>

NotInitializedMsg == <<"Webview", "provider", "not", "initialized">>

TimeoutMsg ==
    <<"Request", "timeout", "-", "AI", "service", "did", "not", "respond",
      "within", "60", "seconds">>

UnknownErrorMsg == <<"Unknown", "error">>

\* `Failed after ${retries} attempts: ${lastError?.message}`
FailedAfterMsg(retries, message) ==
    <<"Failed", "after", ToString(retries), "attempts:">> \o message

\* A test that finds every error retryable.
IsNonRetryableNever(message) == FALSE

\* A test that finds no error retryable.
IsNonRetryableAlways(message) == TRUE

\* The test of the catch block of callPuterAPI (lines 388-390): errors that
\* are not retried.
IsNonRetryable(message) ==
    \/ Includes(message, <<"not", "initialized">>)
    \/ Includes(message, <<"Invalid", "model">>)
    \/ Includes(message, <<"Authentication", "failed">>)

RECURSIVE Pow2(_)
Pow2(n) == IF n = 0 THEN 1 ELSE 2 * Pow2(n - 1)

\* A backoff that does not grow, and one that does not wait.
BackoffFixed(attempt) == BackoffBaseMs

BackoffNone(attempt) == 0

\* The delay of the backoff timer armed after the failure of `attempt`
\* (line 396).
BackoffDelay(attempt) == Pow2(attempt) * BackoffBaseMs

(* ------------------------------ webview -------------------------------- *)

\* Outcomes of `await puter.ai.chat(...)` inside the webview script.
SdkErrors ==
    { <<"401", "Authentication", "failed">>,
      <<"Authentication", "failed">>,
      <<"Invalid", "model">> }

\* kind "string": the SDK returned a plain string; kind "throw": it threw.
SdkOutcomes ==
    {[kind |-> "string", text |-> <<"Hello!">>, message |-> NoText]}
    \cup {[kind |-> "throw", text |-> NoText, message |-> m] : m \in SdkErrors}

\* JSON.stringify(response) of a response that is neither a string nor a
\* message object.
JsonText == <<"{\"finish_reason\":\"stop\"}">>

\* The other shapes of a response: an object with message.content[0].text,
\* and an object without text.
SdkObjects ==
    {[kind |-> "message", text |-> <<"Hello!">>, message |-> NoText],
     [kind |-> "object", text |-> NoText, message |-> NoText]}

AuthRequiredMsg ==
    <<"Authentication", "required.", "Puter", "should", "open", "your",
      "browser", "for", "authentication.">>

RateLimitMsg ==
    <<"Rate", "limit", "exceeded.", "Please", "wait", "a", "moment",
      "before", "trying", "again.">>

NetworkMsg ==
    <<"Network", "error.", "Please", "check", "your", "internet",
      "connection.">>

UnknownErrorOccurredMsg == <<"Unknown", "error", "occurred">>

\* The catch block of handleAPIRequest: the error text of the failure reply.
FriendlyError(message) ==
    IF Includes(message, <<"401">>) THEN AuthRequiredMsg
    ELSE IF Includes(message, <<"429">>) THEN RateLimitMsg
    ELSE IF Includes(message, <<"network">>) THEN NetworkMsg
    ELSE IF message = NoText THEN UnknownErrorOccurredMsg
    ELSE message

\* A handleAPIRequest that reports success whatever the SDK call did.
handleAPIRequestAlwaysSuccess(requestId, sdk) ==
    [requestId |-> requestId, success |-> TRUE, data |-> sdk.text,
     error |-> NoText]

\* handleAPIRequest(requestId, method, params): the 'apiResponse' it posts
\* once the SDK call has completed with `sdk`.
handleAPIRequest(requestId, sdk) ==
    IF sdk.kind = "throw"
    THEN [requestId |-> requestId, success |-> FALSE, data |-> NoText,
          error |-> FriendlyError(sdk.message)]
    ELSE [requestId |-> requestId, success |-> TRUE,
          data |-> IF sdk.kind = "object" THEN JsonText ELSE sdk.text,
          error |-> NoText]

(* ------------------------------- state --------------------------------- *)

VARIABLES
    now,              \* Date.now() of the extension host, in ms
    webviewProvider,  \* whether setWebviewProvider has attached a webview
    pendingRequests,  \* Map requestId -> the {resolve, reject} of one attempt
    timers,           \* the armed setTimeout handles of the host
    calls,            \* the activations of callPuterAPI
    inFlight,         \* 'apiRequest' descriptors the webview has not answered
    last,             \* history: the event the host loop handled last
    streams,          \* the activations of chatWithStreaming
    streamRequests,   \* 'streamRequest' descriptors the webview has not taken
    streaming,        \* the activations of handleStreamRequest in the webview
    toHost,           \* stream messages posted by the webview, not yet received
    posted,           \* history: per activation, the stream messages posted
    conversationHistory, \* Map conversationId -> ChatMessage[]
    appended,         \* history: per id, the messages added since it was cleared
    returned,         \* history: the store operation run last and its result
    chatContainer,    \* the messages the sidebar displays
    config,           \* the settings puterAI.enableAgentMode, agentAutoApply
    editor,           \* the active text editor, its selection and its buffer
    agent,            \* the run of the agentMode command in progress
    sidebar,          \* the chat sidebar: isProcessing, its requests in flight
    lastEdit,         \* history: who replaced the buffer last, with what consent
    held              \* the array a caller of getHistory holds, and its origin

bridgeVars == <<now, webviewProvider, pendingRequests, timers, calls, inFlight, last>>

streamVars == <<streams, streamRequests, streaming, toHost, posted>>

historyVars == <<conversationHistory, appended, returned, chatContainer>>

agentVars == <<config, editor, agent, sidebar, lastEdit>>

callerVars == <<held>>

notBridge == <<streamVars, historyVars, agentVars, callerVars>>

notStream == <<historyVars, agentVars, callerVars>>

vars == <<bridgeVars, streamVars, historyVars, agentVars, callerVars>>

\* `req_${Date.now()}_${Math.random().toString(36).substr(2, 9)}`
generateRequestId(ms, rnd) == [prefix |-> "req", ms |-> ms, rnd |-> rnd]

\* A requestId no call has generated.
UnknownId == [prefix |-> "req", ms |-> 0, rnd |-> 0]

\* An activation of callPuterAPI: where it stands (pc), its loop variable
\* `attempt`, its variable `lastError`, the promise it awaits (fut), the
\* promise it returned (outcome) and the requestIds it posted (posts).
IdleCall ==
    [pc |-> "idle", attempt |-> 0, lastError |-> NoText,
     fut |-> [state |-> "none", value |-> NoText], failedAt |-> 0,
     outcome |-> [state |-> "none", value |-> NoText],
     posts |-> << >>]

\* The conversation ids the callers use; the sidebar always sends 'default'.
ConversationIds == {"default", "work"}

NoStats == [messageCount |-> 0, userMessages |-> 0, aiMessages |-> 0]

NothingReturned ==
    [op |-> "none", id |-> "default", before |-> 0, history |-> << >>,
     stats |-> NoStats]

\* No caller holds an array returned by getHistory.  `array` names the
\* array held: the one stored under a conversation id, a fresh one, or one
\* the store has dropped; `by` names the operation that ran last.
NothingHeld ==
    [array |-> "none", id |-> "default", seq |-> << >>, by |-> "none"]

\* The text of a document as the user wrote it: two chunks, of which a
\* selection covers the first.
OriginalText == <<"old", "old">>

\* vscode.window.activeTextEditor: undefined.
NoEditor == [present |-> FALSE, selected |-> FALSE, text |-> OriginalText]

\* No agent run in progress.
IdleAgent ==
    [pc |-> "idle", origin |-> "none", code |-> << >>, read |-> << >>,
     selected |-> FALSE, autoApply |-> FALSE, result |-> << >>,
     changesSummary |-> "none", message |-> "none", error |-> "none",
     reply |-> [kind |-> "none", text |-> << >>]]

\* The chat sidebar with nothing in flight: the flag isProcessing of the
\* webview script, its awaited puter.ai.chat calls, the handleAgentModify
\* activations of the host (each with the code it read) and the last message
\* the host posted to the webview.
IdleSidebar ==
    [isProcessing |-> FALSE, chats |-> 0, runs |-> << >>, message |-> "none"]

\* An activation of chatWithStreaming: where it stands (pc), its requestId,
\* the promise it returned (outcome) and the chunks handed to onChunk.
IdleStream ==
    [pc |-> "idle", requestId |-> UnknownId,
     outcome |-> [state |-> "none", value |-> NoText],
     chunks |-> << >>]

Init ==
    /\ now = 0
    /\ webviewProvider = FALSE
    /\ pendingRequests = << >>
    /\ timers = {}
    /\ calls = [c \in Calls |-> IdleCall]
    /\ inFlight = {}
    /\ last = [op |-> "init", found |-> FALSE, issued |-> FALSE]
    /\ streams = [s \in Streams |-> IdleStream]
    /\ streamRequests = {}
    /\ streaming = {}
    /\ toHost = << >>
    /\ posted = [s \in Streams |-> << >>]
    /\ conversationHistory = << >>
    /\ appended = [id \in ConversationIds |-> << >>]
    /\ returned = NothingReturned
    /\ chatContainer = << >>
    /\ config = [enableAgentMode |-> FALSE, agentAutoApply |-> FALSE]
    /\ editor = NoEditor
    /\ agent = IdleAgent
    /\ sidebar = IdleSidebar
    /\ lastEdit = [by |-> "none", approved |-> FALSE, autoApply |-> FALSE,
                   changed |-> FALSE, stale |-> FALSE]
    /\ held = NothingHeld

(* ------------------------------ helpers -------------------------------- *)

MapSet(map, key, value) ==
    [k \in DOMAIN map \cup {key} |-> IF k = key THEN value ELSE map[k]]

MapDelete(map, key) == [k \in DOMAIN map \ {key} |-> map[k]]

\* The descriptors posted so far, as <<call, attempt>>.
Posted == {ck \in Calls \X (0..(Retries - 1)) : ck[2] < Len(calls[ck[1]].posts)}

\* The requestIds generated so far.
IssuedIds == {calls[ck[1]].posts[ck[2] + 1] : ck \in Posted}

\* What the host loop did last: for a reply, whether its requestId had a
\* pending entry and whether a call had generated it; "other" for the rest.
Event(op, requestId) ==
    IF op = "apiResponse"
    THEN [op |-> op, found |-> requestId \in DOMAIN pendingRequests,
          issued |-> requestId \in IssuedIds]
    ELSE [op |-> "other", found |-> FALSE, issued |-> FALSE]

\* The values Math.random() may return, up to renaming: one that a requestId
\* of this millisecond already carries, or the least one that none carries.
RandomDraws ==
    LET used == {id.rnd : id \in {x \in IssuedIds : x.ms = now}}
        fresh == RandomValues \ used
    IN used \cup {r \in fresh : \A q \in fresh : r <= q}

\* resolve/reject of the promise of attempt k of call c, as captured by the
\* closures of lines 357-372: only a pending promise changes.
SettleFut(rec, k, state, value) ==
    IF rec.attempt = k /\ rec.fut.state = "pending"
    THEN [rec EXCEPT !.fut = [state |-> state, value |-> value]]
    ELSE rec

\* `lastError = error` at the head of the catch block.
CaughtKeepsFirst(rec) ==
    IF rec.lastError = NoText THEN [rec EXCEPT !.lastError = rec.fut.value] ELSE rec

Caught(rec) == [rec EXCEPT !.lastError = rec.fut.value]

\* The loop condition met after a retryable failure: is there a next attempt?
HasNextAttemptOffByOne(attempt) == attempt < Retries

HasNextAttempt(attempt) == attempt < Retries - 1

\* callPuterAPI from the point where `await new Promise(...)` returns or
\* throws, up to its next suspension or its end (lines 383-401).
Resume(rec) ==
    IF rec.fut.state = "resolved"
    THEN [rec EXCEPT !.pc = "resolved",
                     !.outcome = [state |-> "resolved", value |-> rec.fut.value]]
    ELSE
      LET caught == Caught(rec) IN
      IF IsNonRetryable(rec.fut.value)
      THEN [caught EXCEPT
              !.pc = "rejected",
              !.outcome = [state |-> "rejected", value |-> rec.fut.value]]
      ELSE IF HasNextAttempt(rec.attempt)
      THEN [caught EXCEPT !.pc = "backoff", !.failedAt = now]
      ELSE [caught EXCEPT
              !.pc = "rejected",
              !.attempt = rec.attempt + 1,
              !.outcome = [state |-> "rejected",
                           value |-> FailedAfterMsg(Retries, caught.lastError)]]

\* The state of call c once the promise it awaits was settled to `settled`:
\* the continuation runs as a microtask of the same turn of the host loop.
Continue(c, settled) ==
    IF settled # calls[c] THEN Resume(settled) ELSE settled

\* A backoff that arms no timer.
BackoffTimersNone(c, settled) == {}

\* The setTimeout of line 396, armed when the continuation suspends in the
\* backoff.
BackoffTimers(c, settled) ==
    LET resumed == Continue(c, settled) IN
    IF settled # calls[c] /\ resumed.pc = "backoff"
    THEN {[kind |-> "backoff", call |-> c, attempt |-> resumed.attempt,
           requestId |-> UnknownId,
           due |-> now + BackoffDelay(resumed.attempt)]}
    ELSE {}

\* A clearTimeout that leaves the timer armed.
ClearTimeoutNoOp(armed, c, k) == armed

\* clearTimeout(timeout) in the closures of attempt k of call c.
ClearTimeout(armed, c, k) ==
    {t \in armed : ~(t.kind = "timeout" /\ t.call = c /\ t.attempt = k)}

(* ------------------------------ actions -------------------------------- *)

\* PuterAIService.setWebviewProvider
SetWebviewProvider ==
    /\ ~webviewProvider
    /\ webviewProvider' = TRUE
    /\ last' = Event("setWebviewProvider", UnknownId)
    /\ UNCHANGED <<now, pendingRequests, timers, calls, inFlight>>

\* One iteration of the retry loop of callPuterAPI up to its await
\* (lines 351-381): new requestId, timer, pending entry, postMessage.
StartAttempt(c, k, rnd, armed) ==
    LET requestId == generateRequestId(now, rnd) IN
    /\ timers' = armed \cup
          {[kind |-> "timeout", call |-> c, attempt |-> k,
            requestId |-> requestId, due |-> now + TimeoutMs]}
    /\ pendingRequests' =
          MapSet(pendingRequests, requestId, [call |-> c, attempt |-> k])
    /\ inFlight' = inFlight \cup
          {[type |-> "apiRequest", requestId |-> requestId, method |-> "chat",
            call |-> c, attempt |-> k]}
    /\ calls' = [calls EXCEPT
          ![c].pc = "awaiting",
          ![c].attempt = k,
          ![c].fut = [state |-> "pending", value |-> NoText], ![c].failedAt = 0,
          ![c].posts = Append(@, requestId)]
    /\ last' = Event(IF k = 0 THEN "call" ELSE "retry", requestId)

\* PuterAIService.callPuterAPI, from its entry to its first await.
CallPuterAPI(c, rnd) ==
    /\ calls[c].pc = "idle"
    /\ \A b \in Calls : b < c => calls[b].pc # "idle"
    /\ IF ~webviewProvider
       THEN /\ calls' = [calls EXCEPT
                  ![c].pc = "rejected",
                  ![c].outcome = [state |-> "rejected",
                                  value |-> NotInitializedMsg]]
            /\ last' = Event("call", UnknownId)
            /\ UNCHANGED <<pendingRequests, timers, inFlight>>
       ELSE StartAttempt(c, 0, rnd, timers)
    /\ UNCHANGED <<now, webviewProvider>>

\* The backoff timers that the bound MaxRetrying keeps from firing.
Held ==
    {tm \in timers :
        /\ tm.kind = "backoff"
        /\ Cardinality({c \in Calls \ {tm.call} : Len(calls[c].posts) > 1})
              >= MaxRetrying}

\* The callback of the backoff timer (line 396): the loop goes on with the
\* next attempt.
BackoffFire(tm, rnd) ==
    /\ tm \in timers \ Held
    /\ tm.kind = "backoff"
    /\ now >= tm.due
    /\ StartAttempt(tm.call, tm.attempt + 1, rnd, timers \ {tm})
    /\ UNCHANGED <<now, webviewProvider>>

\* The body of `if (pending)` in handleAPIResponse (lines 40-45) for the
\* entry stored under `key`, with the closures of lines 364-371, followed by
\* the continuation of the call it settles.
SettlePending(key, response) ==
    LET pending == pendingRequests[key]
        c == pending.call
        k == pending.attempt
        settled ==
          IF response.success
          THEN SettleFut(calls[c], k, "resolved", response.data)
          ELSE SettleFut(calls[c], k, "rejected",
                         IF response.error = NoText
                         THEN UnknownErrorMsg ELSE response.error)
    IN
    /\ timers' = ClearTimeout(timers, c, k) \cup BackoffTimers(c, settled)
    /\ pendingRequests' = MapDelete(pendingRequests, key)
    /\ calls' = [calls EXCEPT ![c] = Continue(c, settled)]

\* handleAPIResponse that hands a reply without entry to some pending entry.
handleAPIResponseAnyEntry(response) ==
    IF response.requestId \in DOMAIN pendingRequests
    THEN SettlePending(response.requestId, response)
    ELSE IF DOMAIN pendingRequests # {}
    THEN SettlePending(CHOOSE key \in DOMAIN pendingRequests : TRUE, response)
    ELSE UNCHANGED <<pendingRequests, timers, calls>>

\* PuterAIService.handleAPIResponse (lines 37-47).
handleAPIResponse(response) ==
    IF response.requestId \in DOMAIN pendingRequests
    THEN SettlePending(response.requestId, response)
    ELSE UNCHANGED <<pendingRequests, timers, calls>>

\* The timer callback without its pendingRequests.delete.
TimeoutFireKeepsEntry(tm) ==
    /\ tm \in timers
    /\ tm.kind = "timeout"
    /\ now >= tm.due
    /\ LET c == tm.call
           settled == SettleFut(calls[c], tm.attempt, "rejected", TimeoutMsg)
       IN
       /\ pendingRequests' = pendingRequests
       /\ timers' = (timers \ {tm}) \cup BackoffTimers(c, settled)
       /\ calls' = [calls EXCEPT ![c] = Continue(c, settled)]
    /\ last' = Event("timeout", tm.requestId)
    /\ UNCHANGED <<now, webviewProvider, inFlight>>

\* The callback of the 60 s timer (lines 357-360), followed by the
\* continuation of the call.
TimeoutFire(tm) ==
    /\ tm \in timers
    /\ tm.kind = "timeout"
    /\ now >= tm.due
    /\ LET c == tm.call
           settled == SettleFut(calls[c], tm.attempt, "rejected", TimeoutMsg)
       IN
       /\ pendingRequests' = MapDelete(pendingRequests, tm.requestId)
       /\ timers' = (timers \ {tm}) \cup BackoffTimers(c, settled)
       /\ calls' = [calls EXCEPT ![c] = Continue(c, settled)]
    /\ last' = Event("timeout", tm.requestId)
    /\ UNCHANGED <<now, webviewProvider, inFlight>>

\* The webview script answers a descriptor: handleAPIRequest completes with
\* SDK outcome `sdk` and posts its 'apiResponse', which onDidReceiveMessage
\* hands to handleAPIResponse.
WebviewReply(d, sdk) ==
    /\ d \in inFlight
    /\ inFlight' = inFlight \ {d}
    /\ handleAPIResponse(handleAPIRequest(d.requestId, sdk))
    /\ last' = Event("apiResponse", d.requestId)
    /\ UNCHANGED <<now, webviewProvider>>

\* The payloads of replies handed to handleAPIResponse by other callers than
\* the webview script of this repository.
DirectPayloads ==
    {[success |-> TRUE, data |-> <<"Hello!">>, error |-> NoText],
     [success |-> FALSE, data |-> NoText, error |-> NoText]}

\* A call of the public method handleAPIResponse with any reply: one for an
\* id that was never issued, a late one, a duplicate.
HandleAPIResponse(requestId, payload) ==
    /\ requestId \in IssuedIds \cup {UnknownId}
    /\ handleAPIResponse([requestId |-> requestId, success |-> payload.success,
                          data |-> payload.data, error |-> payload.error])
    /\ last' = Event("apiResponse", requestId)
    /\ UNCHANGED <<now, webviewProvider, inFlight>>

\* Time passes until the next armed timer is due.  The host loop runs the
\* callback of a due timer before the clock reaches the next due time.
AdvanceClock(tm) ==
    /\ tm \in timers \ Held
    /\ \A other \in timers \ Held : now < tm.due /\ tm.due <= other.due
    /\ now' = tm.due
    /\ last' = Event("tick", UnknownId)
    /\ UNCHANGED <<webviewProvider, pendingRequests, timers, calls, inFlight>>

Next ==
    \/ SetWebviewProvider /\ UNCHANGED notBridge
    \/ \E c \in Calls, rnd \in RandomDraws :
          CallPuterAPI(c, rnd) /\ UNCHANGED notBridge
    \/ \E tm \in timers, rnd \in RandomDraws :
          BackoffFire(tm, rnd) /\ UNCHANGED notBridge
    \/ \E tm \in timers : TimeoutFire(tm) /\ UNCHANGED notBridge
    \/ \E d \in inFlight, sdk \in SdkOutcomes :
          WebviewReply(d, sdk) /\ UNCHANGED notBridge
    \/ \E requestId \in IssuedIds \cup {UnknownId}, payload \in DirectPayloads :
          HandleAPIResponse(requestId, payload) /\ UNCHANGED notBridge
    \/ \E tm \in timers : AdvanceClock(tm) /\ UNCHANGED notBridge

Spec == Init /\ [][Next]_vars

(* ------------------------------ claims --------------------------------- *)

\* What a reply or a timeout may touch in the host.
Bridge == <<pendingRequests, timers, calls>>

\* This step handles a reply that carries requestId X.
ReplyFor(X) ==
    \/ \E payload \in DirectPayloads : HandleAPIResponse(X, payload)
    \/ \E d \in inFlight, sdk \in SdkOutcomes :
          d.requestId = X /\ WebviewReply(d, sdk)

\* This step runs the callback of a 60 s timer armed for requestId X.
TimeoutFor(X) ==
    \E tm \in timers : tm.kind = "timeout" /\ tm.requestId = X /\ TimeoutFire(tm)

\* The requestIds of current attempts that a handled reply has settled, and
\* of those that the 60 s timer has settled (only the timer rejects with the
\* timeout message).
SettledByReply ==
    {calls[c].posts[Len(calls[c].posts)] :
        c \in {b \in Calls : /\ calls[b].fut.state \in {"resolved", "rejected"}
                             /\ calls[b].fut.value # TimeoutMsg}}

SettledByTimeout ==
    {calls[c].posts[Len(calls[c].posts)] :
        c \in {b \in Calls : /\ calls[b].fut.state = "rejected"
                             /\ calls[b].fut.value = TimeoutMsg}}

\* C1: for every requestId at most one of the two settle paths, the handled
\* reply or the firing of the 60 s timer, has an effect on the pending table,
\* the timers and the futures: once one of them has settled the attempt, the
\* other one for the same requestId changes nothing.
C1_SecondEventIsNoOp ==
    [][\/ UNCHANGED Bridge
       \/ /\ \A X \in SettledByReply : ~TimeoutFor(X)
          /\ \A X \in SettledByTimeout : ~ReplyFor(X)]_vars

\* A timeout timer of attempt k of call c is armed in `armed`.
TimeoutArmed(armed, c, k) ==
    \E tm \in armed : tm.kind = "timeout" /\ tm.call = c /\ tm.attempt = k

\* A backoff timer of call c is armed in `armed`.
BackoffArmed(armed, c) ==
    \E tm \in armed : tm.kind = "backoff" /\ tm.call = c

\* What the spec says a handled reply does to the entry it finds.
SettlesAsSpecified(response) ==
    LET pending == pendingRequests[response.requestId]
        c == pending.call
        f == calls'[c].fut
    IN
    /\ ~TimeoutArmed(timers', c, pending.attempt)
    /\ response.requestId \notin DOMAIN pendingRequests'
    /\ IF response.success
       THEN f.state = "resolved" /\ f.value = response.data
       ELSE /\ f.state = "rejected"
            /\ f.value = IF response.error = NoText
                         THEN <<"Unknown", "error">> ELSE response.error

\* C2: a reply whose requestId has a pending entry cancels that entry's
\* timeout, removes the entry and settles its future: resolved with
\* response.data when response.success is true, otherwise rejected with
\* response.error, or with 'Unknown error' when the reply carries no error.
C2_ReplySettlesPendingEntry ==
    [][/\ \A X \in DOMAIN pendingRequests, payload \in DirectPayloads :
            HandleAPIResponse(X, payload) =>
                SettlesAsSpecified([requestId |-> X, success |-> payload.success,
                                    data |-> payload.data, error |-> payload.error])
       /\ \A d \in inFlight, sdk \in SdkOutcomes :
            (d.requestId \in DOMAIN pendingRequests /\ WebviewReply(d, sdk)) =>
                SettlesAsSpecified(handleAPIRequest(d.requestId, sdk))]_vars

\* A reply without error text has just rejected a pending attempt, which the
\* call is about to retry.
C2_Witness ==
    /\ last.op = "apiResponse" /\ last.found
    /\ \E c \in Calls :
          /\ calls[c].fut = [state |-> "rejected", value |-> <<"Unknown", "error">>]
          /\ calls[c].failedAt = now
          /\ calls[c].pc = "backoff"
          /\ ~TimeoutArmed(timers, c, calls[c].attempt)

\* C3: a reply whose requestId has no pending entry (never issued, already
\* answered, already timed out) changes nothing: the pending table, the
\* timers and every call's future stay as they are.
C3_ReplyWithoutEntryIsNoOp ==
    [][\/ UNCHANGED Bridge
       \/ \A X \in (IssuedIds \cup {UnknownId}) \ DOMAIN pendingRequests :
             ~ReplyFor(X)]_vars

\* A reply without entry has just been handled while another attempt was
\* pending with its timer armed.
C3_Witness ==
    /\ last.op = "apiResponse" /\ ~last.found
    /\ pendingRequests # << >>
    /\ \E c \in Calls : calls[c].fut.state = "pending"
                        /\ TimeoutArmed(timers, c, calls[c].attempt)

\* C4: when the 60 s timer of a requestId fires, the entry is removed (the
\* rejection is delivered after the removal), it stays removed, and a later
\* reply with that requestId changes nothing; the timeout counts as a
\* retryable failure of its attempt: backoff and retry after attempts 0 and
\* 1, 'Failed after 3 attempts' with the timeout message after attempt 2.
C4_TimeoutRemovesEntry ==
    [][/\ \A tm \in timers :
            (tm.kind = "timeout" /\ TimeoutFire(tm)) =>
               LET c == tm.call IN
               /\ tm.requestId \notin DOMAIN pendingRequests'
               /\ tm.requestId.ms + 60000 <= now
               /\ (calls[c].attempt = tm.attempt /\ calls[c].fut.state = "pending") =>
                    /\ calls'[c].fut.state = "rejected"
                    /\ calls'[c].fut.value = TimeoutMsg
                    /\ calls'[c].lastError = TimeoutMsg
                    /\ IF tm.attempt < 2
                       THEN calls'[c].pc = "backoff" /\ BackoffArmed(timers', c)
                       ELSE /\ calls'[c].pc = "rejected"
                            /\ calls'[c].outcome.value =
                                 <<"Failed", "after", "3", "attempts:">> \o TimeoutMsg
       /\ \A X \in IssuedIds \ DOMAIN pendingRequests :
            X.ms + 60000 <= now =>
               /\ X \notin DOMAIN pendingRequests'
               /\ UNCHANGED Bridge \/ ~ReplyFor(X)]_vars

\* The first attempt of the only call timed out, the call went on to a
\* further attempt, and a reply with an already handled requestId has just
\* arrived while that attempt was pending.
C4_Witness ==
    /\ last = [op |-> "apiResponse", found |-> FALSE, issued |-> TRUE]
    /\ calls[1].pc = "awaiting" /\ calls[1].attempt = 1
    /\ calls[1].lastError = TimeoutMsg
    /\ calls[2].pc = "idle"
    /\ calls[1].posts[1].ms + 60000 <= now

\* The number of attempts a call has started, from its position in the loop.
AttemptsStarted(c) ==
    LET rec == calls[c] IN
    IF rec.pc = "idle" THEN 0
    ELSE IF rec.pc = "rejected" /\ rec.outcome.value = NotInitializedMsg
                                /\ rec.fut.state = "none" THEN 0
    ELSE IF rec.pc = "rejected" /\ rec.attempt >= 3 THEN rec.attempt
    ELSE rec.attempt + 1

\* C5: a call makes at most 3 attempts and each attempt posts exactly one
\* 'apiRequest' descriptor: the number of descriptors of a call equals the
\* number of attempts it has started and never exceeds 3.
C5_AtMostThreeDescriptors ==
    \A c \in Calls :
        /\ Len(calls[c].posts) <= 3
        /\ Len(calls[c].posts) = AttemptsStarted(c)
        /\ Cardinality({d \in inFlight : d.call = c}) <= Len(calls[c].posts)

\* A call is waiting for the reply to its third descriptor.
C5_Witness ==
    \E c \in Calls : /\ calls[c].pc = "awaiting" /\ calls[c].attempt = 2
                     /\ Len(calls[c].posts) = 3

\* The requestIds of the attempts of call c before the current one.
EarlierIds(c) == {calls[c].posts[i] : i \in 1..(Len(calls[c].posts) - 1)}

\* C6: every retry of a call uses a new requestId, and a reply that carries
\* the requestId of an earlier, failed attempt of the call never settles a
\* later attempt of that call: the call, the entry of its current attempt and
\* that attempt's timer are left as they are.
C6_RetryUsesNewId ==
    [][\A c \in Calls :
          /\ \A i, j \in 1..Len(calls'[c].posts) :
                i # j => calls'[c].posts[i] # calls'[c].posts[j]
          /\ \/ /\ calls'[c] = calls[c]
                /\ \A key \in DOMAIN pendingRequests :
                      pendingRequests[key].call = c =>
                         /\ key \in DOMAIN pendingRequests'
                         /\ pendingRequests'[key] = pendingRequests[key]
                /\ \A tm \in timers : tm.call = c => tm \in timers'
             \/ \A X \in EarlierIds(c) : ~ReplyFor(X)]_vars

\* The first attempt of the only call failed with an error reply, the second
\* attempt is pending under another requestId, and a duplicate reply with the
\* first attempt's requestId has just been handled.
C6_Witness ==
    /\ last = [op |-> "apiResponse", found |-> FALSE, issued |-> TRUE]
    /\ calls[2].pc = "idle"
    /\ calls[1].pc = "awaiting" /\ calls[1].attempt = 1
    /\ calls[1].fut.state = "pending"
    /\ calls[1].lastError # TimeoutMsg
    /\ calls[1].posts[1] # calls[1].posts[2]
    /\ calls[1].posts[2] \in DOMAIN pendingRequests

\* The errors the spec lists as not retried.
ListedAsNonRetryable(message) ==
    \/ Includes(message, <<"not", "initialized">>)
    \/ Includes(message, <<"Invalid", "model">>)
    \/ Includes(message, <<"Authentication", "failed">>)

\* C7: an attempt that fails with an error whose text contains 'not
\* initialized', 'Invalid model' or 'Authentication failed' makes the call
\* reject at once with that same error: no backoff is armed and no further
\* descriptor is sent, so a failure of the first attempt leaves exactly one
\* descriptor.
C7_NonRetryableRejectsAtOnce ==
    \A c \in Calls :
        (calls[c].fut.state = "rejected" /\ ListedAsNonRetryable(calls[c].fut.value)) =>
            /\ calls[c].pc = "rejected"
            /\ calls[c].outcome = [state |-> "rejected", value |-> calls[c].fut.value]
            /\ ~BackoffArmed(timers, c)
            /\ calls[c].attempt < 3
            /\ Len(calls[c].posts) = calls[c].attempt + 1

\* The first attempt of a call failed with 'Invalid model' and the call
\* rejected with it after its only descriptor.
C7_Witness ==
    \E c \in Calls :
        /\ calls[c].pc = "rejected" /\ calls[c].attempt = 0
        /\ calls[c].fut = [state |-> "rejected", value |-> <<"Invalid", "model">>]
        /\ calls[c].outcome.value = <<"Invalid", "model">>
        /\ Len(calls[c].posts) = 1

\* C8: when the SDK call fails in the webview's handleAPIRequest with an
\* error whose text contains '401', the reply makes the pending callPuterAPI
\* reject at once: no backoff, no retry, exactly one descriptor for a first
\* attempt.
C8_AuthFailureIsNotRetried ==
    [][\A d \in inFlight, sdk \in SdkOutcomes :
          (/\ sdk.kind = "throw" /\ Includes(sdk.message, <<"401">>)
           /\ d.requestId \in DOMAIN pendingRequests
           /\ WebviewReply(d, sdk)) =>
              LET c == pendingRequests[d.requestId].call IN
              /\ calls'[c].pc = "rejected"
              /\ ~BackoffArmed(timers', c)]_vars

\* C9: a call whose third attempt fails with a retryable error rejects after
\* exactly 3 descriptors, with an error that names the count 3 and carries
\* the message of the third failure.
C9_FailedAfterThreeAttempts ==
    \A c \in Calls :
        (/\ calls[c].attempt >= 2
         /\ calls[c].fut.state = "rejected"
         /\ ~ListedAsNonRetryable(calls[c].fut.value)) =>
            /\ calls[c].pc = "rejected"
            /\ Len(calls[c].posts) = 3
            /\ calls[c].outcome =
                 [state |-> "rejected",
                  value |-> <<"Failed", "after", "3", "attempts:">> \o calls[c].fut.value]

\* A call was rejected after three failures of which the first was an error
\* reply (its retry came one second later) and the third was a timeout, whose
\* message the final error carries.
C9_Witness ==
    \E c \in Calls :
        /\ calls[c].pc = "rejected" /\ Len(calls[c].posts) = 3
        /\ calls[c].posts[2].ms < calls[c].posts[1].ms + 60000
        /\ calls[c].fut.value = TimeoutMsg
        /\ calls[c].outcome.value =
             <<"Failed", "after", "3", "attempts:">> \o TimeoutMsg

\* The backoff the spec states after the failure of attempt k: 2^k seconds.
StatedBackoffMs(k) == IF k = 0 THEN 1000 ELSE IF k = 1 THEN 2000 ELSE 4000

\* C10: after a retryable failure of attempt k (k = 0, 1) the call posts
\* attempt k+1 no sooner than 2^k seconds after the failure; after a failure
\* of the final attempt (k = 2) it rejects in the same turn and arms no
\* backoff.
C10_ExponentialBackoff ==
    [][\A c \in Calls :
          /\ (calls[c].pc = "backoff" /\ calls'[c].pc = "awaiting") =>
                /\ calls'[c].attempt = calls[c].attempt + 1
                /\ now' >= calls[c].failedAt + StatedBackoffMs(calls[c].attempt)
                /\ calls'[c].posts[Len(calls'[c].posts)].ms = now'
          /\ (calls[c].pc = "awaiting" /\ calls'[c].pc = "backoff") =>
                /\ calls[c].attempt < 2
                /\ calls'[c].failedAt = now
          /\ (/\ calls[c].pc = "awaiting" /\ calls[c].attempt = 2
              /\ calls'[c].fut.state = "rejected") =>
                /\ calls'[c].pc = "rejected"
                /\ ~BackoffArmed(timers', c)]_vars

\* A call has posted its third attempt, two seconds or more after the failure
\* of the second, which itself came one second or more after the first.
C10_Witness ==
    \E c \in Calls :
        /\ calls[c].pc = "awaiting" /\ calls[c].attempt = 2
        /\ calls[c].posts[3].ms = now
        /\ calls[c].posts[3].ms >= calls[c].posts[2].ms + 2000
        /\ calls[c].posts[2].ms = calls[c].posts[1].ms + 1000

(* ------------------------------ streaming ------------------------------ *)
(* chatWithStreaming with the setting enableStreaming on (its default),    *)
(* the webview's handleStreamRequest, and the host's message handler.      *)

\* `stream_${Date.now()}_${Math.random().toString(36).substr(2, 9)}`
generateStreamId(ms, rnd) == [prefix |-> "stream", ms |-> ms, rnd |-> rnd]

\* Outcomes of `await puter.ai.chat(prompt, { ..., stream: true })` in the
\* webview: an async iterable of chunks that ends or throws part-way, a plain
\* response, or a rejection.
StreamOutcomes ==
    {[kind |-> "iterable", chunks |-> ch, fails |-> f, message |-> <<"network">>] :
        ch \in {<< >>, <<"a">>, <<"a", "b">>}, f \in BOOLEAN}
    \cup {[kind |-> "string", chunks |-> <<"Hello!">>, fails |-> FALSE,
           message |-> NoText]}
    \cup {[kind |-> "throw", chunks |-> << >>, fails |-> TRUE,
           message |-> <<"401", "Authentication", "failed">>]}

\* PuterAIService.chatWithStreaming (lines 404-448), streaming enabled.  The
\* listener of lines 427-437 is a local constant that no statement registers.
ChatWithStreaming(s, rnd) ==
    /\ streams[s].pc = "idle"
    /\ \A b \in Streams : b < s => streams[b].pc # "idle"
    /\ IF ~webviewProvider
       THEN /\ streams' = [streams EXCEPT
                 ![s].pc = "rejected",
                 ![s].outcome = [state |-> "rejected", value |-> NotInitializedMsg]]
            /\ UNCHANGED streamRequests
       ELSE LET requestId == generateStreamId(now, rnd) IN
            /\ streams' = [streams EXCEPT
                 ![s].pc = "awaiting",
                 ![s].requestId = requestId,
                 ![s].outcome = [state |-> "pending", value |-> NoText]]
            /\ streamRequests' = streamRequests \cup
                 {[type |-> "streamRequest", requestId |-> requestId, stream |-> s]}
    /\ UNCHANGED <<bridgeVars, streaming, toHost, posted>>

\* A stream message that does not carry the requestId of its request.
StreamMessageOtherId(type, requestId, text) ==
    [type |-> type, requestId |-> UnknownId, text |-> text]

StreamMessage(type, requestId, text) ==
    [type |-> type, requestId |-> requestId, text |-> text]

\* handleStreamRequest (webview script) from its call to the first
\* suspension after `await puter.ai.chat`: the fallback posts its chunk and
\* the end at once, a rejection posts 'streamError', an iterable is iterated
\* by PostStreamChunk.
HandleStreamRequest(d, sdk) ==
    /\ d \in streamRequests
    /\ streamRequests' = streamRequests \ {d}
    /\ IF sdk.kind = "iterable"
       THEN /\ streaming' = streaming \cup
                 {[requestId |-> d.requestId, stream |-> d.stream,
                   rest |-> sdk.chunks, fails |-> sdk.fails, message |-> sdk.message]}
            /\ UNCHANGED <<toHost, posted>>
       ELSE IF sdk.kind = "string"
       THEN LET msgs == <<StreamMessage("streamChunk", d.requestId, sdk.chunks),
                          StreamMessage("streamEnd", d.requestId, NoText)>>
            IN /\ toHost' = toHost \o msgs
               /\ posted' = [posted EXCEPT ![d.stream] = @ \o msgs]
               /\ UNCHANGED streaming
       ELSE LET msg == StreamMessage("streamError", d.requestId, sdk.message)
            IN /\ toHost' = Append(toHost, msg)
               /\ posted' = [posted EXCEPT ![d.stream] = Append(@, msg)]
               /\ UNCHANGED streaming
    /\ UNCHANGED <<bridgeVars, streams>>

\* One turn of `for await (const chunk of stream)` in handleStreamRequest, or
\* its end: 'streamEnd' after the last chunk, 'streamError' if the iterator
\* throws.
PostStreamChunk(w) ==
    /\ w \in streaming
    /\ LET msg ==
             IF w.rest # << >>
             THEN StreamMessage("streamChunk", w.requestId, <<Head(w.rest)>>)
             ELSE IF w.fails
             THEN StreamMessage("streamError", w.requestId, w.message)
             ELSE StreamMessage("streamEnd", w.requestId, NoText)
       IN /\ toHost' = Append(toHost, msg)
          /\ posted' = [posted EXCEPT ![w.stream] = Append(@, msg)]
    /\ streaming' =
          IF w.rest # << >>
          THEN (streaming \ {w}) \cup {[w EXCEPT !.rest = Tail(w.rest)]}
          ELSE streaming \ {w}
    /\ UNCHANGED <<bridgeVars, streams, streamRequests>>

\* The host's webview.onDidReceiveMessage handler (part_001 lines 37-79) for
\* the oldest stream message: its switch has no case for 'streamChunk',
\* 'streamEnd' or 'streamError', and the listener of chatWithStreaming is not
\* subscribed, so the message is dropped.
OnDidReceiveMessage ==
    /\ toHost # << >>
    /\ toHost' = Tail(toHost)
    /\ UNCHANGED <<bridgeVars, streams, streamRequests, streaming, posted>>

\* The streaming path next to one callPuterAPI activation that shares the
\* webview with it.
NextStream ==
    \/ SetWebviewProvider /\ UNCHANGED notBridge
    \/ \E rnd \in RandomDraws : CallPuterAPI(1, rnd) /\ UNCHANGED notBridge
    \/ \E d \in inFlight, sdk \in SdkOutcomes \cup SdkObjects :
          WebviewReply(d, sdk) /\ UNCHANGED notBridge
    \/ \E s \in Streams, rnd \in RandomValues :
          ChatWithStreaming(s, rnd) /\ UNCHANGED notStream
    \/ \E d \in streamRequests, sdk \in StreamOutcomes :
          HandleStreamRequest(d, sdk) /\ UNCHANGED notStream
    \/ \E w \in streaming : PostStreamChunk(w) /\ UNCHANGED notStream
    \/ OnDidReceiveMessage /\ UNCHANGED notStream

SpecStream == Init /\ [][NextStream]_vars

\* C11: with no webview attached, callPuterAPI and chatWithStreaming fail at
\* once with a 'not initialized' error: nothing is posted, no pending entry
\* is inserted, no timer is armed, and the failed call does nothing further.
C11_NotInitializedFailsAtOnce ==
    [][/\ \A c \in Calls :
            (~webviewProvider /\ \E rnd \in RandomValues : CallPuterAPI(c, rnd)) =>
                /\ calls'[c].pc = "rejected"
                /\ calls'[c].outcome.state = "rejected"
                /\ Includes(calls'[c].outcome.value, <<"not", "initialized">>)
                /\ calls'[c].posts = << >>
                /\ UNCHANGED <<pendingRequests, timers, inFlight, streamRequests>>
       /\ \A s \in Streams :
            (~webviewProvider /\ \E rnd \in RandomValues : ChatWithStreaming(s, rnd)) =>
                /\ streams'[s].pc = "rejected"
                /\ streams'[s].outcome.state = "rejected"
                /\ Includes(streams'[s].outcome.value, <<"not", "initialized">>)
                /\ UNCHANGED <<pendingRequests, timers, inFlight, streamRequests>>
       /\ \A c \in Calls : calls[c].pc = "rejected" => calls'[c] = calls[c]
       /\ \A s \in Streams : streams[s].pc = "rejected" => streams'[s] = streams[s]]_vars

\* A callPuterAPI call and a streaming call have both failed for want of a
\* webview, which was attached only afterwards; nothing was posted for them.
C11_Witness ==
    /\ webviewProvider
    /\ calls[1].pc = "rejected" /\ calls[1].posts = << >>
    /\ calls[1].outcome.value = <<"Webview", "provider", "not", "initialized">>
    /\ streams[1].pc = "rejected"
    /\ streams[1].outcome.value = <<"Webview", "provider", "not", "initialized">>
    /\ streams[2].pc = "awaiting"
    /\ Cardinality(streamRequests) = 1

\* The future returned by call c settles in this step.
SettlesNow(c) ==
    /\ calls[c].outcome.state \notin {"resolved", "rejected"}
    /\ calls'[c].outcome.state \in {"resolved", "rejected"}

\* This step handles a successful reply with requestId X and data `value`.
SuccessReply(X, value) ==
    \/ \E payload \in DirectPayloads :
          /\ payload.success /\ payload.data = value
          /\ HandleAPIResponse(X, payload)
    \/ \E d \in inFlight, sdk \in SdkOutcomes :
          /\ d.requestId = X
          /\ handleAPIRequest(X, sdk).success
          /\ handleAPIRequest(X, sdk).data = value
          /\ WebviewReply(d, sdk)

\* C12: at the moment the future returned by callPuterAPI settles, the
\* pending table holds no entry under a requestId that the call generated and
\* none of the call's timeout timers is armed; a resolved future carries
\* exactly the data of the reply that matched its last requestId.
C12_SettledCallLeavesNothing ==
    [][\A c \in Calls :
          SettlesNow(c) =>
             /\ \A i \in 1..Len(calls'[c].posts) :
                   calls'[c].posts[i] \notin DOMAIN pendingRequests'
             /\ \A tm \in timers' : ~(tm.kind = "timeout" /\ tm.call = c)
             /\ calls'[c].outcome.state = "resolved" =>
                   SuccessReply(calls[c].posts[Len(calls[c].posts)],
                                calls'[c].outcome.value)]_vars

\* The same for the entries that hold the closures of the call itself, which
\* is what remains true when two calls have generated the same requestId.
C12_OwnEntries ==
    [][\A c \in Calls :
          SettlesNow(c) =>
             /\ \A key \in DOMAIN pendingRequests' : pendingRequests'[key].call # c
             /\ \A tm \in timers' : ~(tm.kind = "timeout" /\ tm.call = c)
             /\ calls'[c].outcome.state = "resolved" =>
                   SuccessReply(calls[c].posts[Len(calls[c].posts)],
                                calls'[c].outcome.value)]_vars

\* C13: a streaming call hands every 'streamChunk' of its requestId to
\* onChunk in arrival order and then settles exactly once: it resolves when
\* the host receives 'streamEnd' for its requestId, rejects when it receives
\* 'streamError', and nothing reaches it after that.
C13_StreamDeliversThenSettles ==
    [][/\ (toHost # << >> /\ OnDidReceiveMessage) =>
            LET msg == Head(toHost) IN
            \A s \in Streams :
               (streams[s].pc = "awaiting" /\ streams[s].requestId = msg.requestId) =>
                  IF msg.type = "streamChunk"
                  THEN /\ streams'[s].chunks = Append(streams[s].chunks, msg.text)
                       /\ streams'[s].outcome.state = "pending"
                  ELSE IF msg.type = "streamEnd"
                  THEN streams'[s].outcome.state = "resolved"
                  ELSE streams'[s].outcome.state = "rejected"
       /\ \A s \in Streams :
            streams[s].outcome.state \in {"resolved", "rejected"} =>
               streams'[s] = streams[s]]_vars

(* ------------------------- conversation store -------------------------- *)

\* private maxHistoryLength = 50
maxHistoryLength == 50

\* Number of addToHistory calls on one conversation between two clears.
MaxAppends == 52

Roles == <<"user", "assistant", "system">>

\* The n-th message a caller adds to a conversation: the roles take turns,
\* content and timestamp tell the messages apart.
NextMessage(n) ==
    [role |-> Roles[((n - 1) % 3) + 1], content |-> n, timestamp |-> n]

\* getHistory that answers for an unknown id with another conversation.
getHistoryOfAny(store, conversationId) ==
    IF conversationId \in DOMAIN store THEN store[conversationId]
    ELSE IF DOMAIN store # {} THEN store[CHOOSE id \in DOMAIN store : TRUE]
    ELSE << >>

\* PuterAIService.getHistory (lines 62-64).
getHistory(store, conversationId) ==
    IF conversationId \in DOMAIN store THEN store[conversationId] ELSE << >>

\* addToHistory that drops the new message when the cap is exceeded.
addToHistoryDropsNewest(store, conversationId, message) ==
    LET history == Append(getHistory(store, conversationId), message) IN
    MapSet(store, conversationId,
           IF Len(history) > maxHistoryLength
           THEN SubSeq(history, 1, Len(history) - 1) ELSE history)

\* PuterAIService.addToHistory (lines 49-60): push, then shift when the
\* length exceeds maxHistoryLength.
addToHistory(store, conversationId, message) ==
    LET history == Append(getHistory(store, conversationId), message) IN
    MapSet(store, conversationId,
           IF Len(history) > maxHistoryLength THEN Tail(history) ELSE history)

\* clearHistory that empties the whole store.
clearHistoryAll(store, conversationId) == << >>

\* clearHistory that leaves the store as it is.
clearHistoryNoOp(store, conversationId) == store

\* PuterAIService.clearHistory (lines 66-68).
clearHistory(store, conversationId) == MapDelete(store, conversationId)

\* history.filter(m => m.role === role).length
CountRole(history, role) ==
    Cardinality({i \in 1..Len(history) : history[i].role = role})

\* getConversationStats that counts every message not from the user as the
\* assistant's.
getConversationStatsTwoRoles(store, conversationId) ==
    LET history == getHistory(store, conversationId) IN
    [messageCount |-> Len(history),
     userMessages |-> CountRole(history, "user"),
     aiMessages |-> Len(history) - CountRole(history, "user")]

\* PuterAIService.getConversationStats (lines 463-474).
getConversationStats(store, conversationId) ==
    LET history == getHistory(store, conversationId) IN
    [messageCount |-> Len(history),
     userMessages |-> CountRole(history, "user"),
     aiMessages |-> CountRole(history, "assistant")]

\* What an operation on conversation `id` leaves in `returned`.
Returned(op, id, history, stats) ==
    [op |-> op, id |-> id,
     before |-> Len(getHistory(conversationHistory, id)),
     history |-> history, stats |-> stats]

AddToHistory(id) ==
    /\ Len(appended[id]) < MaxAppends
    /\ LET message == NextMessage(Len(appended[id]) + 1) IN
       /\ conversationHistory' = addToHistory(conversationHistory, id, message)
       /\ appended' = [appended EXCEPT ![id] = Append(@, message)]
    /\ returned' = Returned("addToHistory", id, << >>, NoStats)
    /\ UNCHANGED chatContainer

\* getHistory, also as the host's answer to the sidebar's 'getHistory'
\* request (part_001 lines 55-58).
GetHistory(id) ==
    /\ returned' = Returned("getHistory", id,
                            getHistory(conversationHistory, id), NoStats)
    /\ UNCHANGED <<conversationHistory, appended, chatContainer>>

\* clearHistory, also as the host's handling of the sidebar's 'clearHistory'
\* request (part_001 lines 52-54).
ClearHistory(id) ==
    /\ conversationHistory' = clearHistory(conversationHistory, id)
    /\ appended' = [appended EXCEPT ![id] = << >>]
    /\ returned' = Returned("clearHistory", id, << >>, NoStats)
    /\ UNCHANGED chatContainer

GetConversationStats(id) ==
    /\ returned' = Returned("getConversationStats", id, << >>,
                            getConversationStats(conversationHistory, id))
    /\ UNCHANGED <<conversationHistory, appended, chatContainer>>

RateLimitIconMsg ==
    <<"(stopwatch)", "Rate", "limit", "exceeded.", "Please", "wait", "a",
      "moment", "before", "trying", "again.">>

NetworkIconMsg ==
    <<"(globe)", "Network", "error.", "Please", "check", "your", "internet",
      "connection", "and", "try", "again.">>

\* errorMessage in the catch block of sendMessage.
SendMessageError(message) ==
    IF Includes(message, <<"401">>) THEN AuthRequiredMsg
    ELSE IF Includes(message, <<"429">>) THEN RateLimitIconMsg
    ELSE IF Includes(message, <<"network">>) \/ Includes(message, <<"fetch">>)
    THEN NetworkIconMsg
    ELSE IF message = NoText THEN UnknownErrorOccurredMsg
    ELSE message

\* The sidebar's sendMessage (webview script) for a message that is not an
\* agent command, with Puter.js ready: the SDK is called in the webview and
\* the outcome is displayed; nothing is posted to the host.
SendMessage(sdk) ==
    /\ chatContainer = << >>
    /\ chatContainer' =
         <<[sender |-> "You", text |-> <<"Hi">>],
           IF sdk.kind = "throw"
           THEN [sender |-> "Error", text |-> SendMessageError(sdk.message)]
           ELSE [sender |-> "Claude", text |-> sdk.text]>>
    /\ returned' = Returned("sendMessage", "default", << >>, NoStats)
    /\ UNCHANGED <<conversationHistory, appended>>

notHistory == <<bridgeVars, streamVars, agentVars, callerVars>>

NextHistory ==
    \/ \E id \in ConversationIds : AddToHistory(id) /\ UNCHANGED notHistory
    \/ \E id \in ConversationIds : GetHistory(id) /\ UNCHANGED notHistory
    \/ \E id \in ConversationIds : ClearHistory(id) /\ UNCHANGED notHistory
    \/ \E id \in ConversationIds : GetConversationStats(id) /\ UNCHANGED notHistory
    \/ \E sdk \in SdkOutcomes : SendMessage(sdk) /\ UNCHANGED notHistory

SpecHistory == Init /\ [][NextHistory]_vars

(* ------------------- arrays returned by getHistory -------------------- *)

\* Number of addToHistory calls on one conversation between two clears, and
\* of messages a caller pushes onto one array, in the specification of held
\* arrays.
MaxHeldAppends == 3

MaxPushes == 1

\* The message a caller pushes onto the array it holds.
CallerMessage == [role |-> "user", content |-> 0, timestamp |-> 0]

\* getHistory that returns a copy of the stored array.
ReturnedArrayCopy(store, conversationId) == "fresh"

\* The array getHistory returns (line 63): the array stored under the id
\* itself, or a new empty array for an id the store does not have.
ReturnedArray(store, conversationId) ==
    IF conversationId \in DOMAIN store THEN conversationId ELSE "fresh"

\* A caller calls getHistory and keeps what it returns.
GetHistoryAndHold(id) ==
    /\ GetHistory(id)
    /\ held' = [array |-> ReturnedArray(conversationHistory, id), id |-> id,
                seq |-> getHistory(conversationHistory, id),
                by |-> "getHistory"]

\* addToHistory while a caller holds an array: push and shift act on the
\* stored array, which is the held one when the caller holds that array.
AddToHistoryWhileHeld(id) ==
    /\ Len(appended[id]) < MaxHeldAppends
    /\ AddToHistory(id)
    /\ held' = IF held.array = id
               THEN [held EXCEPT !.seq = conversationHistory'[id],
                                 !.by = "addToHistory"]
               ELSE [held EXCEPT !.by = "addToHistory"]

\* clearHistory while a caller holds an array: the Map drops its entry, the
\* array itself stays as it is.
ClearHistoryWhileHeld(id) ==
    /\ ClearHistory(id)
    /\ held' = IF held.array = id
               THEN [held EXCEPT !.array = "dropped", !.by = "clearHistory"]
               ELSE [held EXCEPT !.by = "clearHistory"]

\* The caller pushes a message onto the array it holds.
CallerPushes ==
    /\ held.array # "none"
    /\ Cardinality({i \in 1..Len(held.seq) : held.seq[i] = CallerMessage})
         < MaxPushes
    /\ held' = [held EXCEPT !.seq = Append(@, CallerMessage),
                            !.by = "caller"]
    /\ conversationHistory' =
         IF held.array \in ConversationIds
         THEN MapSet(conversationHistory, held.array,
                     Append(held.seq, CallerMessage))
         ELSE conversationHistory
    /\ UNCHANGED <<appended, returned, chatContainer>>

outsideStore == <<bridgeVars, streamVars, agentVars>>

NextHeld ==
    \/ \E id \in ConversationIds : GetHistoryAndHold(id) /\ UNCHANGED outsideStore
    \/ \E id \in ConversationIds : AddToHistoryWhileHeld(id) /\ UNCHANGED outsideStore
    \/ \E id \in ConversationIds : ClearHistoryWhileHeld(id) /\ UNCHANGED outsideStore
    \/ CallerPushes /\ UNCHANGED outsideStore

SpecHeld == Init /\ [][NextHeld]_vars

\* The last n elements of a sequence.
LastN(seq, n) == SubSeq(seq, Len(seq) - n + 1, Len(seq))

\* The smaller of two numbers.
Min(a, b) == IF a <= b THEN a ELSE b

\* What the spec says a conversation holds after the additions in `log`.
MostRecent(log) == LastN(log, Min(Len(log), 50))

\* C14: after N addToHistory calls since a conversation was created or last
\* cleared, getHistory returns the most recent min(N, 50) messages in their
\* original order: the stored length never exceeds 50 and an append beyond
\* the cap evicts the oldest message.
C14_HistoryKeepsMostRecentFifty ==
    /\ \A id \in ConversationIds :
          /\ getHistory(conversationHistory, id) = MostRecent(appended[id])
          /\ Len(getHistory(conversationHistory, id)) <= 50
    /\ returned.op = "getHistory" =>
          returned.history = MostRecent(appended[returned.id])

\* getHistory has just returned the 50 messages that remain of 52 additions:
\* the third to the fifty-second.
C14_Witness ==
    /\ returned.op = "getHistory"
    /\ Len(appended[returned.id]) = 52
    /\ Len(returned.history) = 50
    /\ returned.history[1].content = 3
    /\ returned.history[50].content = 52

C16_UnknownIdReadsEmpty ==
    [][\A id \in ConversationIds \ DOMAIN conversationHistory :
          /\ GetHistory(id) =>
                /\ returned'.op = "getHistory" /\ returned'.history = << >>
                /\ conversationHistory' = conversationHistory
          /\ GetConversationStats(id) =>
                /\ returned'.op = "getConversationStats"
                /\ returned'.stats =
                     [messageCount |-> 0, userMessages |-> 0, aiMessages |-> 0]
                /\ conversationHistory' = conversationHistory]_vars

\* getConversationStats has just returned zero counts for an id the store
\* does not know, while the store holds another conversation.
C16_Witness ==
    /\ returned.op = "getConversationStats"
    /\ returned.id \notin DOMAIN conversationHistory
    /\ returned.stats.messageCount = 0
    /\ DOMAIN conversationHistory # {}

\* The number of messages of a role in a sequence, counted one by one.
RECURSIVE Tally(_, _)
Tally(history, role) ==
    IF history = << >> THEN 0
    ELSE (IF Head(history).role = role THEN 1 ELSE 0) + Tally(Tail(history), role)

\* C17: getConversationStats returns the stored length as messageCount, the
\* number of stored 'user' messages as userMessages and the number of stored
\* 'assistant' messages as aiMessages; 'system' messages count only in
\* messageCount, and evicted messages are not counted.
C17_StatsCountStoredMessages ==
    /\ \A id \in ConversationIds :
          LET stored == getHistory(conversationHistory, id)
              stats == getConversationStats(conversationHistory, id)
          IN /\ stats.messageCount = Len(stored)
             /\ stats.userMessages = Tally(stored, "user")
             /\ stats.aiMessages = Tally(stored, "assistant")
             /\ stats.messageCount =
                  stats.userMessages + stats.aiMessages + Tally(stored, "system")
             /\ stats.messageCount <= 50
    /\ returned.op = "getConversationStats" =>
          returned.stats = getConversationStats(conversationHistory, returned.id)

\* getConversationStats has just counted a conversation that lost two of its
\* 52 messages to the cap and holds 'system' messages.
C17_Witness ==
    /\ returned.op = "getConversationStats"
    /\ Len(appended[returned.id]) = 52
    /\ returned.stats.messageCount = 50
    /\ returned.stats.messageCount > returned.stats.userMessages + returned.stats.aiMessages
    /\ returned.stats.userMessages = Tally(MostRecent(appended[returned.id]), "user")

\* C18: after a chat exchange completes successfully the conversation's
\* history holds the user's message and the assistant's reply, so the
\* sidebar's next 'getHistory' request gets a non-empty history.
C18_ChatUpdatesHistory ==
    [][\A sdk \in SdkOutcomes :
          (sdk.kind # "throw" /\ SendMessage(sdk)) =>
             LET history == getHistory(conversationHistory', "default") IN
             /\ history # << >>
             /\ \E i, j \in 1..Len(history) :
                   /\ i < j
                   /\ history[i].role = "user"
                   /\ history[j].role = "assistant"]_vars

\* The requestIds that call c has generated.
IdsOf(c) == {calls[c].posts[i] : i \in 1..Len(calls[c].posts)}

\* The pending entries that hold the closures of call b.
EntriesOf(table, b) == {key \in DOMAIN table : table[key].call = b}

\* This step leaves the record (future included), the pending entries and
\* the timers of every call other than c as they are.
OthersUnchanged(c) ==
    \A b \in Calls \ {c} :
       /\ calls'[b] = calls[b]
       /\ EntriesOf(pendingRequests', b) = EntriesOf(pendingRequests, b)
       /\ {tm \in timers' : tm.call = b} = {tm \in timers : tm.call = b}

\* C19: concurrent callPuterAPI calls are independent: a reply or a timeout
\* for a requestId of one call leaves the pending entries, the timers and the
\* future of every other call unchanged.
C19_ConcurrentCallsIndependent ==
    [][\A c \in Calls :
          \/ OthersUnchanged(c)
          \/ \A X \in IdsOf(c) : ~ReplyFor(X) /\ ~TimeoutFor(X)]_vars

\* The same for a requestId that no other call has generated, which is what
\* remains true when two calls have generated the same requestId.
C19_DistinctIds ==
    [][\A c \in Calls :
          \/ OthersUnchanged(c)
          \/ \A X \in IdsOf(c) :
                (\A b \in Calls \ {c} : X \notin IdsOf(b)) =>
                   ~ReplyFor(X) /\ ~TimeoutFor(X)]_vars

\* The call issued second has resolved while the call issued first still
\* awaits its reply: calls settle in any order.
C19_SettledOutOfOrder ==
    /\ calls[2].outcome.state = "resolved"
    /\ calls[1].outcome.state = "none"
    /\ calls[1].pc = "awaiting"
    /\ IdsOf(1) \cap IdsOf(2) = {}

(* ------------------------------ Agent Mode ----------------------------- *)

\* The longest reply text, in tokens, and the most requests in flight.
MaxReplyLen == 3

MaxAgentRuns == 2

\* The most puter.ai.chat calls of the sidebar in flight.
MaxChats == 1

\* The most chunks of the document that hold text the user typed.
MaxTyped == 1

\* The text this.chat returns, as tokens: an opening brace with the three
\* members of the requested object, a closing brace, text without braces.
ReplyTokens == {"{members", "}", "prose"}

AgentReplyTexts == UNION {[1..n -> ReplyTokens] : n \in 0..MaxReplyLen}

\* What this.chat returns or throws to agentModifyCode.
AgentResponses ==
    {[kind |-> "text", text |-> t] : t \in AgentReplyTexts}
    \cup {[kind |-> "chatError", text |-> << >>]}

\* The least and the greatest member of a set of positions.
Least(S) == CHOOSE i \in S : \A j \in S : i <= j

Greatest(S) == CHOOSE i \in S : \A j \in S : j <= i

\* A match that ends at the first closing brace instead of the last.
JsonMatchLazy(text) ==
    LET opens == {i \in 1..Len(text) : text[i] = "{members"}
        closes == {j \in 1..Len(text) : text[j] = "}"}
    IN IF \E i \in opens, j \in closes : i < j
       THEN SubSeq(text, Least(opens),
                   Least({j \in closes : Least(opens) < j}))
       ELSE << >>

\* response.match(/\{[\s\S]*\}/): from the first opening brace to the last
\* closing brace after it; the empty sequence stands for null.
JsonMatch(text) ==
    LET opens == {i \in 1..Len(text) : text[i] = "{members"}
        closes == {j \in 1..Len(text) : text[j] = "}"}
    IN IF \E i \in opens, j \in closes : i < j
       THEN SubSeq(text, Least(opens), Greatest(closes))
       ELSE << >>

\* Whether JSON.parse accepts the matched text.
IsJson(text) == text = <<"{members", "}">>

\* The modifiedCode of a parsed agent response: every chunk rewritten.
ModifiedCode(code) == [i \in 1..Len(code) |-> "new"]

\* PuterAIService.agentModifyCode after its await of chat.
agentModifyCode(code, response) ==
    IF response.kind = "chatError"
    THEN [ok |-> FALSE, modifiedCode |-> code, changesSummary |-> "none",
          error |-> "Puter AI Error"]
    ELSE LET jsonMatch == JsonMatch(response.text) IN
         IF jsonMatch = << >>
         THEN [ok |-> TRUE, modifiedCode |-> code,
               changesSummary |-> "No changes made", error |-> "none"]
         ELSE IF IsJson(jsonMatch)
         THEN [ok |-> TRUE, modifiedCode |-> ModifiedCode(code),
               changesSummary |-> "summary", error |-> "none"]
         ELSE [ok |-> FALSE, modifiedCode |-> code, changesSummary |-> "none",
               error |-> "Failed to parse agent response"]

\* editBuilder.replace: the selection (the first chunk) or the full range.
Replace(text, selected, modifiedCode) ==
    IF selected THEN modifiedCode \o Tail(text) ELSE modifiedCode

\* Whether an edit from `before` to `after` replaced text that was no longer
\* the text `read` when the code was taken from the document.
ReplacedNewerText(read, before, after) ==
    \E i \in 1..Len(before) : before[i] # read[i] /\ after[i] # before[i]

\* editor.edit with the result of the run, which ends the run.  `approved`
\* tells whether the user chose 'Apply Changes' or 'Apply' for this result.
ApplyChanges(approved, message) ==
    LET text == Replace(editor.text, agent.selected, agent.result) IN
    /\ editor' = [editor EXCEPT !.text = text]
    /\ lastEdit' = [by |-> agent.origin, approved |-> approved,
                    autoApply |-> agent.autoApply,
                    changed |-> text # editor.text,
                    stale |-> ReplacedNewerText(agent.read, editor.text, text)]
    /\ agent' = [IdleAgent EXCEPT !.message = message,
                                  !.changesSummary = agent.changesSummary]

\* An agent request is in flight, from the command or from the sidebar.
AgentInFlight == agent.pc # "idle" \/ sidebar.runs # << >>

\* The user opens a document, with or without a selection.
OpenEditor(selected) ==
    /\ ~editor.present
    /\ editor' = [present |-> TRUE, selected |-> selected, text |-> OriginalText]
    /\ UNCHANGED <<config, agent, sidebar, lastEdit>>

\* The user closes the document (between runs of the agent).
CloseEditor ==
    /\ editor.present
    /\ ~AgentInFlight
    /\ editor' = NoEditor
    /\ UNCHANGED <<config, agent, sidebar, lastEdit>>

\* The user types into chunk i of the document while an agent request is
\* in flight, at most MaxTyped chunks of it.
UserTypes(i) ==
    /\ editor.present
    /\ agent.pc \in {"modifying", "actionPrompt", "applyPrompt"} \/ sidebar.runs # << >>
    /\ editor.text[i] # "typed"
    /\ Cardinality({j \in 1..Len(editor.text) : editor.text[j] = "typed"}) < MaxTyped
    /\ editor' = [editor EXCEPT !.text[i] = "typed"]
    /\ UNCHANGED <<config, agent, sidebar, lastEdit>>

\* The command puter-ai.toggleAgentMode.
ToggleAgentMode ==
    /\ config' = [config EXCEPT !.enableAgentMode = ~@]
    /\ UNCHANGED <<editor, agent, sidebar, lastEdit>>

\* The user changes the setting puterAI.agentAutoApply.
SetAgentAutoApply(value) ==
    /\ config.agentAutoApply # value
    /\ config' = [config EXCEPT !.agentAutoApply = value]
    /\ UNCHANGED <<editor, agent, sidebar, lastEdit>>

\* The command puter-ai.agentMode up to its first await.
AgentModeCommand ==
    /\ agent.pc = "idle"
    /\ agent' =
         IF ~editor.present
         THEN [IdleAgent EXCEPT !.message = "No active editor found"]
         ELSE IF ~config.enableAgentMode
         THEN [IdleAgent EXCEPT !.pc = "enablePrompt", !.origin = "command"]
         ELSE [IdleAgent EXCEPT !.pc = "inputBox", !.origin = "command"]
    /\ UNCHANGED <<config, editor, sidebar, lastEdit>>

\* The answer to 'Agent Mode is disabled. Enable it ...'.
EnablePromptAnswer(choice) ==
    /\ agent.pc = "enablePrompt"
    /\ IF choice = "Enable Agent Mode"
       THEN /\ config' = [config EXCEPT !.enableAgentMode = TRUE]
            /\ agent' = [agent EXCEPT !.pc = "inputBox"]
       ELSE /\ agent' = IdleAgent
            /\ UNCHANGED config
    /\ UNCHANGED <<editor, sidebar, lastEdit>>

\* The answer to the input box; with an instruction the command reads the
\* selection or the whole text and awaits agentModifyCode.
InputBoxAnswer(instruction) ==
    /\ agent.pc = "inputBox"
    /\ agent' =
         IF instruction = ""
         THEN IdleAgent
         ELSE [agent EXCEPT
                 !.pc = "modifying",
                 !.selected = editor.selected,
                 !.read = editor.text,
                 !.code = IF editor.selected
                          THEN <<Head(editor.text)>> ELSE editor.text]
    /\ UNCHANGED <<config, editor, sidebar, lastEdit>>

\* agentModifyCode returns to the agentMode command, which reads
\* agentAutoApply and applies the result or asks the user first.
CommandGetsResult(response) ==
    LET result == agentModifyCode(agent.code, response)
        run == [agent EXCEPT !.result = result.modifiedCode,
                             !.changesSummary = result.changesSummary,
                             !.autoApply = config.agentAutoApply,
                             !.reply = response]
    IN
    /\ agent.pc = "modifying"
    /\ agent.origin = "command"
    /\ IF ~result.ok
       THEN /\ agent' = [IdleAgent EXCEPT !.message = "Agent Error",
                                          !.error = result.error,
                                          !.reply = response]
            /\ UNCHANGED <<editor, lastEdit>>
       ELSE IF config.agentAutoApply
       THEN /\ editor' = [editor EXCEPT
                  !.text = Replace(@, run.selected, run.result)]
            /\ lastEdit' = [by |-> "command", approved |-> FALSE,
                            autoApply |-> TRUE,
                            changed |-> editor'.text # editor.text,
                            stale |-> ReplacedNewerText(agent.read,
                                         editor.text, editor'.text)]
            /\ agent' = [IdleAgent EXCEPT
                  !.message = "Agent applied changes",
                  !.changesSummary = result.changesSummary,
                  !.reply = response]
       ELSE /\ agent' = [run EXCEPT !.pc = "actionPrompt"]
            /\ UNCHANGED <<editor, lastEdit>>
    /\ UNCHANGED <<config, sidebar>>

\* The answer to 'Agent Changes: ...'.
ActionAnswer(action) ==
    /\ agent.pc = "actionPrompt"
    /\ CASE action = "Apply Changes" ->
              ApplyChanges(TRUE, "Agent applied changes")
         [] action = "Preview Diff" ->
              /\ agent' = [agent EXCEPT !.pc = "applyPrompt"]
              /\ UNCHANGED <<editor, lastEdit>>
         [] OTHER ->
              /\ agent' = IdleAgent
              /\ UNCHANGED <<editor, lastEdit>>
    /\ UNCHANGED <<config, sidebar>>

\* The answer to 'Apply these changes?' under the diff.
ApplyAnswer(apply) ==
    /\ agent.pc = "applyPrompt"
    /\ IF apply = "Apply"
       THEN ApplyChanges(TRUE, "Agent applied changes")
       ELSE /\ agent' = IdleAgent
            /\ UNCHANGED <<editor, lastEdit>>
    /\ UNCHANGED <<config, sidebar>>

\* The sidebar's sendMessage for a message that is not an agent command, up
\* to its await of puter.ai.chat: a send is ignored while isProcessing.
SendChat ==
    /\ ~sidebar.isProcessing
    /\ sidebar.chats < MaxChats
    /\ sidebar' = [sidebar EXCEPT !.isProcessing = TRUE, !.chats = @ + 1]
    /\ UNCHANGED <<config, editor, agent, lastEdit>>

\* puter.ai.chat returns or throws to sendMessage, whose finally block
\* resets isProcessing.
ChatAnswered ==
    /\ sidebar.chats > 0
    /\ sidebar' = [sidebar EXCEPT !.isProcessing = FALSE, !.chats = @ - 1]
    /\ UNCHANGED <<config, editor, agent, lastEdit>>

\* A handleAgentModify that does not look at the setting enableAgentMode.
AgentModifyAllowedWhenDisabled(ed, cfg) == ed.present

\* The checks of handleAgentModify (lines 115-131): an active editor and the
\* setting enableAgentMode.
AgentModifyAllowed(ed, cfg) == ed.present /\ cfg.enableAgentMode

\* PuterChatViewProvider.handleAgentModify up to its await of
\* agentModifyCode, for the 'agentModify' message of a sendMessage whose
\* finally block has reset isProcessing.
HandleAgentModify ==
    /\ sidebar' =
         IF AgentModifyAllowed(editor, config)
         THEN [sidebar EXCEPT !.isProcessing = FALSE,
                              !.runs = Append(@, editor.text)]
         ELSE [sidebar EXCEPT !.isProcessing = FALSE, !.message = "error"]
    /\ UNCHANGED <<config, editor, agent, lastEdit>>

\* The sidebar's sendMessage for an 'agent:' message, with the host's
\* handling of the 'agentModify' message it posts.
SendAgentCommand ==
    /\ ~sidebar.isProcessing
    /\ Len(sidebar.runs) < MaxAgentRuns
    /\ HandleAgentModify

\* The runs of the sidebar without run i.
WithoutRun(runs, i) == SubSeq(runs, 1, i - 1) \o SubSeq(runs, i + 1, Len(runs))

\* agentModifyCode returns to activation i of handleAgentModify, which
\* replaces the full range and posts 'agentSuccess', or posts the error; the
\* webview's listener resets isProcessing on either message.
SidebarGetsResult(i, response) ==
    LET result == agentModifyCode(sidebar.runs[i], response) IN
    /\ i \in 1..Len(sidebar.runs)
    /\ IF ~result.ok
       THEN /\ sidebar' = [sidebar EXCEPT !.isProcessing = FALSE,
                                          !.runs = WithoutRun(@, i),
                                          !.message = "error"]
            /\ UNCHANGED <<editor, lastEdit>>
       ELSE /\ editor' = [editor EXCEPT !.text = result.modifiedCode]
            /\ lastEdit' = [by |-> "sidebar", approved |-> FALSE,
                            autoApply |-> FALSE,
                            changed |-> result.modifiedCode # editor.text,
                            stale |-> ReplacedNewerText(sidebar.runs[i],
                                         editor.text, result.modifiedCode)]
            /\ sidebar' = [sidebar EXCEPT !.isProcessing = FALSE,
                                          !.runs = WithoutRun(@, i),
                                          !.message = "agentSuccess"]
    /\ UNCHANGED <<config, agent>>

notAgent == <<bridgeVars, streamVars, historyVars, callerVars>>

\* The agentMode command, with the user's editing and settings.
NextAgent ==
    \/ (\E selected \in BOOLEAN : OpenEditor(selected)) /\ UNCHANGED notAgent
    \/ CloseEditor /\ UNCHANGED notAgent
    \/ (\E i \in 1..2 : UserTypes(i)) /\ UNCHANGED notAgent
    \/ ToggleAgentMode /\ UNCHANGED notAgent
    \/ (\E value \in BOOLEAN : SetAgentAutoApply(value)) /\ UNCHANGED notAgent
    \/ AgentModeCommand /\ UNCHANGED notAgent
    \/ (\E choice \in {"Enable Agent Mode", "Cancel"} :
           EnablePromptAnswer(choice)) /\ UNCHANGED notAgent
    \/ (\E instruction \in {"", "add error handling"} :
           InputBoxAnswer(instruction)) /\ UNCHANGED notAgent
    \/ (\E response \in AgentResponses : CommandGetsResult(response))
          /\ UNCHANGED notAgent
    \/ (\E action \in {"Apply Changes", "Preview Diff", "Cancel"} :
           ActionAnswer(action)) /\ UNCHANGED notAgent
    \/ (\E apply \in {"Apply", "Cancel"} : ApplyAnswer(apply))
          /\ UNCHANGED notAgent

SpecAgent == Init /\ [][NextAgent]_vars

\* The chat sidebar, with the user's editing and settings.
NextSidebar ==
    \/ (\E selected \in BOOLEAN : OpenEditor(selected)) /\ UNCHANGED notAgent
    \/ CloseEditor /\ UNCHANGED notAgent
    \/ (\E i \in 1..2 : UserTypes(i)) /\ UNCHANGED notAgent
    \/ ToggleAgentMode /\ UNCHANGED notAgent
    \/ SendChat /\ UNCHANGED notAgent
    \/ ChatAnswered /\ UNCHANGED notAgent
    \/ SendAgentCommand /\ UNCHANGED notAgent
    \/ (\E i \in 1..MaxAgentRuns, response \in AgentResponses :
           SidebarGetsResult(i, response)) /\ UNCHANGED notAgent

SpecSidebar == Init /\ [][NextSidebar]_vars

\* Claim-side reading of a reply: it has an opening brace with a closing
\* brace somewhere after it.
HasBracedText(text) ==
    \E i, j \in 1..Len(text) : i < j /\ text[i] = "{members" /\ text[j] = "}"

\* Claim-side reading of a reply: from its first opening brace to its last
\* closing brace it is exactly one object.
BracedTextIsJson(text) ==
    /\ HasBracedText(text)
    /\ \A i, j \in 1..Len(text) :
         (/\ text[i] = "{members"
          /\ \A k \in 1..(i - 1) : text[k] # "{members"
          /\ text[j] = "}"
          /\ \A k \in (j + 1)..Len(text) : text[k] # "}")
         => j = i + 1

\* The agentMode command receives what agentModifyCode made of a reply text.
ReplyArrives ==
    /\ agent.pc = "modifying"
    /\ agent'.pc # "modifying"
    /\ agent'.reply.kind = "text"

\* The command goes on with `code` as the modified code and `summary` as the
\* summary of the changes: it asks the user, or applies under autoApply.
GoesOnWith(code, summary) ==
    /\ agent'.changesSummary = summary
    /\ \/ /\ agent'.pc = "actionPrompt"
          /\ agent'.result = code
          /\ editor' = editor
       \/ /\ agent'.pc = "idle"
          /\ agent'.message = "Agent applied changes"
          /\ editor'.text = Replace(editor.text, agent.selected, code)

\* C31: agentModifyCode distinguishes two parse failures of the reply.  A
\* reply with no brace-delimited text makes it return the original code
\* unchanged with changesSummary 'No changes made'; a reply with
\* brace-delimited text that is not well-formed JSON makes it fail with
\* 'Failed to parse agent response' and return no result, so the command
\* reports the error and leaves the editor alone.
C31_TwoParseFailures ==
    [][ReplyArrives =>
          /\ ~HasBracedText(agent'.reply.text)
               => GoesOnWith(agent.code, "No changes made")
          /\ (HasBracedText(agent'.reply.text)
              /\ ~BracedTextIsJson(agent'.reply.text))
               => /\ agent'.pc = "idle"
                  /\ agent'.message = "Agent Error"
                  /\ agent'.error = "Failed to parse agent response"
                  /\ agent'.result = << >>
                  /\ editor' = editor
                  /\ lastEdit' = lastEdit]_vars

\* C31 witness: a reply whose first closing brace ends an object but whose
\* last does not was rejected, and the editor holds what it held.
C31_Witness ==
    /\ agent.reply = [kind |-> "text", text |-> <<"{members", "}", "}">>]
    /\ agent.error = "Failed to parse agent response"
    /\ editor.present

\* C31 witness of the other failure: a reply without braces came back as the
\* original code under the summary 'No changes made'.
C31_WitnessNoBraces ==
    /\ agent.reply = [kind |-> "text", text |-> <<"prose", "}", "{members">>]
    /\ agent.pc = "actionPrompt"
    /\ agent.result = agent.code
    /\ agent.changesSummary = "No changes made"

\* A send from the sidebar changed the sidebar without starting or ending a
\* request: the host answered an 'agentModify' message at once.
AnsweredAtOnce ==
    /\ sidebar' # sidebar
    /\ sidebar'.runs = sidebar.runs
    /\ sidebar'.chats = sidebar.chats

\* An activation of handleAgentModify ended with agentModifyCode failing.
AgentModifyFails ==
    /\ Len(sidebar'.runs) < Len(sidebar.runs)
    /\ sidebar'.message = "error"

\* C32: with agent mode disabled, or with no active editor, an 'agentModify'
\* request from the sidebar issues no request to the Executor and makes no
\* editor mutation; it only posts 'error' to the webview.  When
\* agentModifyCode fails the editor buffer is left unchanged.
C32_RefusedOrFailedLeavesEditor ==
    [][/\ ~(editor.present /\ config.enableAgentMode)
          => /\ Len(sidebar'.runs) <= Len(sidebar.runs)
             /\ AnsweredAtOnce
                  => /\ sidebar'.message = "error"
                     /\ editor' = editor
                     /\ lastEdit' = lastEdit
       /\ AgentModifyFails => editor' = editor /\ lastEdit' = lastEdit]_vars

\* C32 witness: with a document open and agent mode disabled, the sidebar
\* was answered 'error'; no request is in flight and the document was never
\* edited.
C32_Witness ==
    /\ editor.present
    /\ ~config.enableAgentMode
    /\ sidebar.message = "error"
    /\ sidebar.runs = << >>
    /\ editor.text = OriginalText
    /\ lastEdit.by = "none"

\* C32 witness of the failure: a request was issued, agentModifyCode failed,
\* and the text the user typed meanwhile is still in the document.
C32_WitnessFailure ==
    /\ sidebar.message = "error"
    /\ config.enableAgentMode
    /\ sidebar.runs = << >>
    /\ editor.present
    /\ editor.text = <<"typed", "old">>
    /\ lastEdit.by = "none"

\* C33: the sidebar has at most one request in flight: a further send is
\* ignored until the result or the error of the one in flight has arrived,
\* so two agent modifications are never in flight at the same time.
C33_OneAgentModification == Len(sidebar.runs) <= 1

\* C33, counting chats too: at most one request of either kind in flight.
C33_AtMostOneInFlight == Len(sidebar.runs) + sidebar.chats <= 1

\* C33, the flag: isProcessing is true for as long as a sent message has
\* produced neither its result nor its error.
C33_ProcessingWhileInFlight ==
    (sidebar.runs # << >> \/ sidebar.chats > 0) => sidebar.isProcessing

\* C34: an agent result is applied only to the buffer content it was
\* computed from: when the document changed between the reading of the code
\* and the arrival of the reply, the edit does not replace the text that
\* changed.
C34_IntermediateEditsSurvive == ~lastEdit.stale

\* C20: Agent Mode modifies the user's code only with the user's approval: no
\* editor buffer is replaced by an agent result unless the user approved
\* that change or enabled auto-apply, for the agentMode command and for an
\* 'agentModify' request of the sidebar alike.
C20_EditsNeedApproval ==
    lastEdit.by # "none" => lastEdit.approved \/ lastEdit.autoApply

\* The same for the agentMode command alone.
C20_CommandEditsNeedApproval ==
    lastEdit.by = "command" => lastEdit.approved \/ lastEdit.autoApply

(* --------------------------- timers that fire --------------------------- *)

\* The callback of the backoff timer (line 396) of any call, however many
\* calls are retrying.
ResumeAfterBackoff(tm, rnd) ==
    /\ tm \in timers
    /\ tm.kind = "backoff"
    /\ now >= tm.due
    /\ StartAttempt(tm.call, tm.attempt + 1, rnd, timers \ {tm})
    /\ UNCHANGED <<now, webviewProvider>>

\* Time passes until the next armed timer is due.
NextTimerDue(tm) ==
    /\ tm \in timers
    /\ \A other \in timers : now < tm.due /\ tm.due <= other.due
    /\ now' = tm.due
    /\ last' = Event("tick", UnknownId)
    /\ UNCHANGED <<webviewProvider, pendingRequests, timers, calls, inFlight>>

\* The webview script answers a descriptor whose requestId still has a
\* pending entry; a reply that finds no entry changes nothing in the host.
ReplyInTime(d, sdk) ==
    /\ d.requestId \in DOMAIN pendingRequests
    /\ WebviewReply(d, sdk)

\* The host loop with the webview script: calls, replies of the script or
\* none at all, and the timers of every call.
NextTimers ==
    \/ SetWebviewProvider /\ UNCHANGED notBridge
    \/ \E c \in Calls, rnd \in RandomDraws :
          CallPuterAPI(c, rnd) /\ UNCHANGED notBridge
    \/ \E tm \in timers, rnd \in RandomDraws :
          ResumeAfterBackoff(tm, rnd) /\ UNCHANGED notBridge
    \/ \E tm \in timers : TimeoutFire(tm) /\ UNCHANGED notBridge
    \/ \E d \in inFlight, sdk \in SdkOutcomes :
          ReplyInTime(d, sdk) /\ UNCHANGED notBridge
    \/ \E tm \in timers : NextTimerDue(tm) /\ UNCHANGED notBridge

\* Timers fire: time passes, and the host loop runs the callback of a timer
\* that is due.  Nothing obliges the webview to reply or the user to call.
TimersFire ==
    /\ WF_<<now, timers, calls>>(\E tm \in timers : NextTimerDue(tm))
    /\ WF_<<now, timers, calls>>(\E tm \in timers : TimeoutFire(tm))
    /\ WF_<<now, timers, calls>>(
          \E tm \in timers, rnd \in RandomDraws : ResumeAfterBackoff(tm, rnd))

SpecTimers == Init /\ [][NextTimers]_vars /\ TimersFire

\* The future returned by call c has settled.
Settled(c) == calls[c].outcome.state \in {"resolved", "rejected"}

\* The longest a call can take: 3 timeouts and the 2 backoff waits between.
LongestCallMs == Retries * TimeoutMs + BackoffDelay(0) + BackoffDelay(1)

\* C21: every callPuterAPI call eventually settles, even if the webview
\* never replies, provided timers fire: a call that has not settled is at
\* most 3 timeouts and 2 backoff waits past its start.
C21_EveryCallSettles ==
    /\ \A c \in Calls : (calls[c].pc # "idle") ~> Settled(c)
    /\ [](\A c \in Calls :
            (calls[c].pc # "idle" /\ ~Settled(c)) =>
               /\ Len(calls[c].posts) \in 1..Retries
               /\ now <= calls[c].posts[1].ms + LongestCallMs)

\* Both calls were rejected after three timeouts each, without any reply,
\* at the latest moment a call can settle.
C21_Witness ==
    /\ now = LongestCallMs
    /\ \A c \in Calls :
          /\ calls[c].outcome.state = "rejected"
          /\ calls[c].outcome.value = FailedAfterMsg(Retries, TimeoutMsg)
          /\ Len(calls[c].posts) = Retries
          /\ calls[c].posts[1].ms = 0
    /\ Cardinality(inFlight) >= Retries

\* The requestId of the current attempt of call c.
CurrentId(c) == calls[c].posts[Len(calls[c].posts)]

\* The data a success reply can carry.
ReplyData == {<<"Hello!">>}

\* The step resolves call c with `value`, sends nothing and leaves no trace
\* of earlier failures in the result.
ResolvesWith(c, value) ==
    /\ calls'[c].pc = "resolved"
    /\ calls'[c].outcome = [state |-> "resolved", value |-> value]
    /\ calls'[c].posts = calls[c].posts
    /\ inFlight' \subseteq inFlight

\* C22: callPuterAPI resolves if and only if some attempt receives a success
\* reply for its own requestId before that attempt's timeout; it resolves
\* with the data of that reply, sends no further descriptor and discards the
\* earlier failures.
C22_ResolvesIffSuccessReply ==
    [][\A c \in Calls :
          /\ \/ calls[c].pc # "awaiting"
             \/ \A value \in ReplyData :
                   ResolvesWith(c, value) \/ ~SuccessReply(CurrentId(c), value)
          /\ \/ ~SettlesNow(c)
             \/ calls'[c].outcome.state # "resolved"
             \/ /\ calls[c].pc = "awaiting"
                /\ ResolvesWith(c, calls'[c].outcome.value)
                /\ SuccessReply(CurrentId(c), calls'[c].outcome.value)
          /\ calls[c].pc = "resolved" => calls'[c] = calls[c]]_vars

\* The same when the pending entry under the requestId holds the closures of
\* the call itself, which is what remains true when two calls have generated
\* the same requestId.
C22_OwnEntry ==
    [][\A c \in Calls :
          /\ \/ calls[c].pc # "awaiting"
             \/ CurrentId(c) \notin DOMAIN pendingRequests
             \/ pendingRequests[CurrentId(c)].call # c
             \/ \A value \in ReplyData :
                   ResolvesWith(c, value) \/ ~SuccessReply(CurrentId(c), value)
          /\ \/ ~SettlesNow(c)
             \/ calls'[c].outcome.state # "resolved"
             \/ /\ calls[c].pc = "awaiting"
                /\ ResolvesWith(c, calls'[c].outcome.value)
                /\ SuccessReply(CurrentId(c), calls'[c].outcome.value)
          /\ calls[c].pc = "resolved" => calls'[c] = calls[c]]_vars

\* This step handles a failure reply with requestId X and error text `err`
\* (NoText: the reply carries no error text).
FailureReply(X, err) ==
    \/ \E payload \in DirectPayloads :
          /\ ~payload.success /\ payload.error = err
          /\ HandleAPIResponse(X, payload)
    \/ \E d \in inFlight, sdk \in SdkOutcomes :
          /\ d.requestId = X
          /\ ~handleAPIRequest(X, sdk).success
          /\ handleAPIRequest(X, sdk).error = err
          /\ WebviewReply(d, sdk)

\* The error texts of failure replies that contain none of the three
\* non-retryable substrings.
RetryableReplyErrors ==
    {err \in {NoText} \cup {FriendlyError(m) : m \in SdkErrors} :
        /\ ~Includes(err, <<"not", "initialized">>)
        /\ ~Includes(err, <<"Invalid", "model">>)
        /\ ~Includes(err, <<"Authentication", "failed">>)}

\* What the spec says follows a retryable failure `err` of the attempt whose
\* closures are stored under X: a backoff of 2^attempt seconds before a new
\* attempt, or after the third attempt the final rejection.
RetriedAsSpecified(X, err) ==
    LET c == pendingRequests[X].call
        k == pendingRequests[X].attempt
        text == IF err = NoText THEN <<"Unknown", "error">> ELSE err
    IN
    /\ calls'[c].lastError = text
    /\ calls'[c].posts = calls[c].posts
    /\ IF k < 2
       THEN /\ calls'[c].pc = "backoff"
            /\ calls'[c].outcome.state = "none"
            /\ \E tm \in timers' :
                  /\ tm.kind = "backoff" /\ tm.call = c /\ tm.attempt = k
                  /\ tm.due = now + Pow2(k) * 1000
       ELSE /\ calls'[c].pc = "rejected"
            /\ calls'[c].outcome =
                 [state |-> "rejected", value |-> FailedAfterMsg(3, text)]
            /\ ~BackoffArmed(timers', c)

\* C23: a failure reply whose text contains none of the non-retryable
\* substrings, a reply without error text (turned into 'Unknown error')
\* included, is retryable: a backoff and then a new attempt follow it unless
\* it was the third attempt.
C23_OtherFailuresAreRetried ==
    [][/\ \A X \in DOMAIN pendingRequests, err \in RetryableReplyErrors :
             RetriedAsSpecified(X, err) \/ ~FailureReply(X, err)
       /\ \A tm \in timers :
             \/ /\ calls'[tm.call].pc = "awaiting"
                /\ calls'[tm.call].attempt = tm.attempt + 1
                /\ Len(calls'[tm.call].posts) = Len(calls[tm.call].posts) + 1
             \/ \A rnd \in RandomDraws : ~BackoffFire(tm, rnd)]_vars

\* A call is in its third attempt after two failure replies, the last of
\* them without error text.
C23_Witness ==
    \E c \in Calls :
       /\ calls[c].pc = "awaiting"
       /\ calls[c].attempt = 2
       /\ calls[c].lastError = UnknownErrorMsg
       /\ \A tm \in timers : tm.kind = "timeout" /\ tm.due < 60000 + 3000 + 60000

\* The armed 60 s timers of requestId X.
TimeoutsOf(X) == {tm \in timers : tm.kind = "timeout" /\ tm.requestId = X}

\* C24: between events of the host loop the armed 60 s timers correspond one
\* to one to the pending entries: each pending entry has exactly one armed
\* timer and no timer is armed for a requestId without pending entry.
C24_TimersMatchPendingEntries ==
    /\ \A X \in DOMAIN pendingRequests : Cardinality(TimeoutsOf(X)) = 1
    /\ \A tm \in timers :
          tm.kind = "timeout" => tm.requestId \in DOMAIN pendingRequests

\* No requestId was generated twice.
NoSharedId ==
    \A p, q \in Posted :
       p # q => calls[p[1]].posts[p[2] + 1] # calls[q[1]].posts[q[2] + 1]

\* The same as long as no requestId was generated twice.
C24_DistinctIds ==
    NoSharedId =>
       /\ \A X \in DOMAIN pendingRequests :
             /\ Cardinality(TimeoutsOf(X)) = 1
             /\ \A tm \in TimeoutsOf(X) :
                   /\ tm.call = pendingRequests[X].call
                   /\ tm.attempt = pendingRequests[X].attempt
       /\ \A tm \in timers :
             tm.kind = "timeout" => tm.requestId \in DOMAIN pendingRequests

\* C25: every requestId generated by callPuterAPI is unique: it differs from
\* every requestId that has a pending entry at that moment, so inserting the
\* pending entry never overwrites the entry of another in-flight attempt.
C25_RequestIdsAreUnique ==
    [][\A c \in Calls :
          Len(calls'[c].posts) > Len(calls[c].posts) =>
             /\ calls'[c].posts[Len(calls'[c].posts)] \notin DOMAIN pendingRequests
             /\ \A X \in DOMAIN pendingRequests :
                   X \in DOMAIN pendingRequests' /\ pendingRequests'[X] = pendingRequests[X]]_vars

\* What the spec calls the normalized text of a successful SDK response.
NormalizedText(sdk) ==
    CASE sdk.kind = "string" -> sdk.text
      [] sdk.kind = "message" -> sdk.text
      [] OTHER -> <<"{\"finish_reason\":\"stop\"}">>

StreamRequestDone(s) ==
    /\ streams[s].pc = "awaiting"
    /\ \A d \in streamRequests : d.stream # s
    /\ \A w \in streaming : w.stream # s

\* C27: for every 'streamRequest' the webview's handleStreamRequest posts
\* zero or more 'streamChunk' events and then exactly one terminal event,
\* 'streamEnd' or 'streamError', all with the requestId of the request, and
\* no chunk after the terminal event.
C27_ChunksThenOneTerminal ==
    \A s \in Streams :
       LET log == posted[s] IN
       /\ \A i \in 1..Len(log) :
             /\ log[i].requestId = streams[s].requestId
             /\ i < Len(log) => log[i].type = "streamChunk"
       /\ StreamRequestDone(s) <=>
             (log # << >> /\ log[Len(log)].type \in {"streamEnd", "streamError"})
       /\ (\E w \in streaming : w.stream = s) =>
             \A i \in 1..Len(log) : log[i].type = "streamChunk"

\* One request was answered by two chunks and a 'streamError', the other by
\* a 'streamEnd' without any chunk.
C27_Witness ==
    /\ Len(posted[1]) = 3 /\ posted[1][3].type = "streamError"
    /\ posted[1][2].type = "streamChunk"
    /\ Len(posted[2]) = 1 /\ posted[2][1].type = "streamEnd"
    /\ toHost = << >>

\* The 'streamRequest' descriptors of activation s among `descriptors`.
RequestsOf(descriptors, s) == {d \in descriptors : d.stream = s}

\* A streaming call posts one 'streamRequest', inserts no pending entry and
\* arms no timer, and no later step posts another descriptor for it.
StreamingFrame ==
    /\ \A s \in Streams :
          (webviewProvider /\ \E rnd \in RandomValues : ChatWithStreaming(s, rnd)) =>
             /\ Cardinality(RequestsOf(streamRequests', s)) = 1
             /\ streamRequests' \ streamRequests = RequestsOf(streamRequests', s)
             /\ UNCHANGED <<pendingRequests, timers, inFlight>>
    /\ \A s \in Streams :
          streams[s].pc # "idle" =>
             RequestsOf(streamRequests', s) \subseteq RequestsOf(streamRequests, s)

\* The host receives the 'streamEnd' or 'streamError' of the requestId of
\* activation s, which is pending.
TerminalEventFor(s) ==
    /\ toHost # << >>
    /\ Head(toHost).type \in {"streamEnd", "streamError"}
    /\ Head(toHost).requestId = streams[s].requestId
    /\ streams[s].pc = "awaiting"
    /\ OnDidReceiveMessage

\* C28: a streaming call with streaming enabled posts exactly one
\* 'streamRequest', inserts no pending entry, arms no timeout and is never
\* retried; its lifetime is bounded only by the end or error event of its
\* requestId: no other step ends the call, and that event does.
C28_StreamingCallFrame ==
    [][/\ StreamingFrame
       /\ \A s \in Streams :
             /\ TerminalEventFor(s) => streams'[s].pc # "awaiting"
             /\ (streams[s].pc = "awaiting" /\ ~TerminalEventFor(s)) =>
                   streams'[s].pc = "awaiting"]_vars

\* The same without the end of the call at its terminal event.
C28_FrameOnly ==
    [][/\ StreamingFrame
       /\ \A s \in Streams :
             (streams[s].pc = "awaiting" /\ ~TerminalEventFor(s)) =>
                streams'[s].pc = "awaiting"]_vars

(* ----------------------- streaming switched off ------------------------ *)

\* `Puter AI Error: ${error.message}` (chat, line 213)
PuterAIErrorMsg(message) == <<"Puter", "AI", "Error:">> \o message

\* A continuation that hands the response to onChunk twice.
AfterChatChunksTwice(rec, result) ==
    IF result.state = "resolved"
    THEN [rec EXCEPT !.pc = "resolved", !.chunks = <<result.value, result.value>>,
                     !.outcome = [state |-> "resolved", value |-> NoText]]
    ELSE [rec EXCEPT !.pc = "rejected",
                     !.outcome = [state |-> "rejected",
                                  value |-> PuterAIErrorMsg(result.value)]]

\* chatWithStreaming after `await this.chat(...)` (lines 412-414), chat's
\* catch block included: `result` is the outcome of callPuterAPI.
AfterChat(rec, result) ==
    IF result.state = "resolved"
    THEN [rec EXCEPT !.pc = "resolved", !.chunks = Append(@, result.value),
                     !.outcome = [state |-> "resolved", value |-> NoText]]
    ELSE [rec EXCEPT !.pc = "rejected",
                     !.outcome = [state |-> "rejected",
                                  value |-> PuterAIErrorMsg(result.value)]]

\* chatWithStreaming with the setting enableStreaming off, up to the await
\* inside callPuterAPI: activation s runs chat, which runs callPuterAPI
\* (activation s of it).
ChatWithStreamingDisabled(s, rnd) ==
    /\ streams[s].pc = "idle"
    /\ CallPuterAPI(s, rnd)
    /\ streams' = [streams EXCEPT
          ![s].pc = "chatting",
          ![s].outcome = [state |-> "pending", value |-> NoText]]
    /\ UNCHANGED <<streamRequests, streaming, toHost, posted>>

\* The continuation of chat and of chatWithStreaming once callPuterAPI has
\* settled.
ChatReturns(s) ==
    /\ streams[s].pc = "chatting"
    /\ calls[s].outcome.state \in {"resolved", "rejected"}
    /\ streams' = [streams EXCEPT ![s] = AfterChat(@, calls[s].outcome)]
    /\ UNCHANGED <<bridgeVars, streamRequests, streaming, toHost, posted>>

\* One chatWithStreaming activation with streaming switched off, over the
\* whole request bridge.
NextChat ==
    \/ SetWebviewProvider /\ UNCHANGED notBridge
    \/ \E rnd \in RandomDraws :
          ChatWithStreamingDisabled(1, rnd) /\ UNCHANGED notStream
    \/ \E tm \in timers, rnd \in RandomDraws :
          BackoffFire(tm, rnd) /\ UNCHANGED notBridge
    \/ \E tm \in timers : TimeoutFire(tm) /\ UNCHANGED notBridge
    \/ \E d \in inFlight, sdk \in SdkOutcomes \cup SdkObjects :
          WebviewReply(d, sdk) /\ UNCHANGED notBridge
    \/ \E requestId \in IssuedIds \cup {UnknownId}, payload \in DirectPayloads :
          HandleAPIResponse(requestId, payload) /\ UNCHANGED notBridge
    \/ \E tm \in timers : AdvanceClock(tm) /\ UNCHANGED notBridge
    \/ ChatReturns(1) /\ UNCHANGED notStream

SpecChat == Init /\ [][NextChat]_vars

\* C29: with streaming disabled chatWithStreaming performs one non-streaming
\* chat call, with the normal retry policy, and calls onChunk exactly once,
\* with the complete response, before it resolves; when the chat call fails
\* onChunk is never called and the failure is propagated.
C29_DisabledStreamingChatsOnce ==
    \A s \in Streams :
       /\ streams[s].pc = "chatting" => streams[s].chunks = << >>
       /\ streams[s].pc = "resolved" =>
             /\ calls[s].outcome.state = "resolved"
             /\ streams[s].chunks = <<calls[s].outcome.value>>
             /\ streams[s].outcome.state = "resolved"
       /\ streams[s].pc = "rejected" =>
             /\ calls[s].outcome.state = "rejected"
             /\ streams[s].chunks = << >>
             /\ streams[s].outcome.state = "rejected"
             /\ Includes(streams[s].outcome.value, calls[s].outcome.value)
       /\ streams[s].pc # "idle" =>
             /\ streamRequests = {} /\ posted[s] = << >>
             /\ Len(calls[s].posts) <= Retries
             /\ calls[s].pc # "idle"

\* The one chat call succeeded at its third attempt, more than 60 s after
\* its start; onChunk got the response once.
C29_Witness ==
    /\ streams[1].pc = "resolved"
    /\ streams[1].chunks = <<JsonText>>
    /\ Len(calls[1].posts) = Retries
    /\ now > TimeoutMs

\* The chat call failed at once with a non-retryable error, which was
\* propagated; onChunk was not called.
C29_WitnessFailure ==
    /\ streams[1].pc = "rejected"
    /\ streams[1].outcome.value = PuterAIErrorMsg(<<"Invalid", "model">>)
    /\ streams[1].chunks = << >>

\* The step leaves the stored sequence of every conversation other than id
\* as it is, and creates or deletes no other conversation.
OtherConversationsUnchanged(id) ==
    \A other \in ConversationIds \ {id} :
       /\ other \in DOMAIN conversationHistory' <=> other \in DOMAIN conversationHistory
       /\ getHistory(conversationHistory', other) = getHistory(conversationHistory, other)

\* C30: addToHistory and clearHistory on one conversationId leave the
\* message sequence of every other conversationId unchanged, and an eviction
\* caused by the cap in one conversation removes no message of another.
C30_OtherConversationsUntouched ==
    [][\A id \in ConversationIds :
          OtherConversationsUnchanged(id) \/ (~AddToHistory(id) /\ ~ClearHistory(id))]_vars

\* An addition to 'default' has just evicted its oldest message while 'work'
\* still holds its two messages.
C30_Witness ==
    /\ returned.op = "addToHistory" /\ returned.id = "default"
    /\ returned.before = 50
    /\ Len(getHistory(conversationHistory, "default")) = 50
    /\ getHistory(conversationHistory, "default")[1].content = 2
    /\ Len(getHistory(conversationHistory, "work")) = 2
    /\ getHistory(conversationHistory, "work")[1].content = 1


\* C35: a sequence returned by getHistory is a snapshot.  A later
\* addToHistory or clearHistory on the same conversationId does not change
\* the sequence the caller holds, and a mutation of the returned sequence
\* by the caller does not change the store, for known and unknown ids alike.
C35_GetHistoryReturnsSnapshot ==
    [][/\ held.array # "none" /\ held'.by \in {"addToHistory", "clearHistory"}
          => held'.seq = held.seq
       /\ held'.by = "caller"
          => conversationHistory' = conversationHistory]_vars

\* C35 for the arrays the store does not hold: the array returned for an
\* unknown id, and an array whose conversation was cleared since.
C35_UnsharedArrays ==
    [][held.array \in {"fresh", "dropped"} =>
         /\ held'.by \in {"addToHistory", "clearHistory"}
              => held'.seq = held.seq
         /\ held'.by = "caller"
              => conversationHistory' = conversationHistory]_vars

\* C35 for clearHistory alone: it leaves the held sequence as it is.
C35_ClearKeepsHeld ==
    [][held.array # "none" /\ held'.by = "clearHistory"
          => held'.seq = held.seq]_vars

=============================================================================
